---- MODULE Spec2Model ----
(***************************************************************************)
(* State-machine model of the TM-Tools transformation core:                *)
(*   - SfdxFalconModel (packages/model/src/model.ts, carried in            *)
(*     src/README.md): the build/load/refresh lifecycle of a model.        *)
(*   - Tm2Context (src/src/modules/tm-tools-objects/tm2-context.ts): the   *)
(*     destination context, its record maps and placeholder resolution.    *)
(*   - Tm1Context (src/src/modules/tm-tools-objects/tm-file-paths.ts): the *)
(*     source context, its extracts, indices and sharing rules.            *)
(*                                                                         *)
(* Strings whose characters matter (record Ids, Developer Names, pending   *)
(* Territory2 Ids) are sequences of one-character strings, so startsWith   *)
(* and substring are computed on characters.                               *)
(***************************************************************************)
EXTENDS Integers, Sequences, FiniteSets, TLC

VARIABLES
  trapErrors,   \* SfdxFalconModel.trapErrors, per instance
  state,        \* SfdxFalconModel._state, per instance
  errors,       \* SfdxFalconModel._errors, per instance
  buildOpts,    \* SfdxFalconModel._buildOpts, per instance
  loadOpts,     \* SfdxFalconModel._loadOpts, per instance
  readyBy,      \* history: the hook invocation whose success last made an instance ready
  pending,      \* calls suspended at their `await this._build/_load(...)`
  last,         \* outcome of the most recently completed build/load/refresh call
  tm1ToTm2DevnameMapCsv,                    \* file: the Developer Name mapping table
  territory2Csv,                            \* file: the Territory2 extract
  userTerritory2AssociationIntermediateCsv, \* file: the intermediate associations
  territoryDevNameMappings,                 \* Tm2Context._territoryDevNameMappings
  territory2Records,                        \* Tm2Context._territory2Records
  territory2RecordsByDevName,               \* Tm2Context._territory2RecordsByDevName
  territory2RecordsById,                    \* Tm2Context._territory2RecordsById
  territoryDevNameMapByT2DevName,           \* Tm2Context._territoryDevNameMapByT2DevName
  territoryDevNameMapByT2Id,                \* Tm2Context._territoryDevNameMapByT2Id
  objectTerritory2AssociationRecords,       \* Tm2Context._objectTerritory2AssociationRecords
  userTerritory2AssociationRecords,         \* Tm2Context._userTerritory2AssociationRecords
  prepared,                                 \* Tm2Context._prepared
  updated,                                  \* Tm2Context._updated
  tm2Last,      \* outcome of the most recently completed Tm2Context call
  tm2Completed, \* history: the Tm2Context calls that have returned so far
  accountShareCsv,            \* file: AccountShare.csv
  ataRuleCsv,                 \* file: AccountTerritoryAssignmentRule.csv
  ataRuleItemCsv,             \* file: AccountTerritoryAssignmentRuleItem.csv
  territoryCsv,               \* file: Territory.csv
  userTerritoryCsv,           \* file: UserTerritory.csv
  accountSharingRulesXml,     \* file: sharingRules/Account.sharingRules
  leadSharingRulesXml,        \* file: sharingRules/Lead.sharingRules
  opportunitySharingRulesXml, \* file: sharingRules/Opportunity.sharingRules
  ataRuleRecords,             \* Tm1Context._ataRuleRecords, per context
  ataRuleDevNamesByRuleId,    \* Tm1Context._ataRuleDevNamesByRuleId, per context
  tm1Prepared,                \* Tm1Context._prepared, per context
  tm1ContextValidation,       \* what the last Tm1Context.validate() returned
  tm1Last,      \* outcome of the most recently completed Tm1Context call
  accountShareRecords,        \* Tm1Context._accountShareRecords, per context
  ataRuleItemRecords,         \* Tm1Context._ataRuleItemRecords, per context
  territoryRecords,           \* Tm1Context._territoryRecords, per context
  userTerritoryRecords,       \* Tm1Context._userTerritoryRecords, per context
  territoryRecordsById,       \* Tm1Context._territoryRecordsById, per context
  ataRuleRecordsById,         \* Tm1Context._ataRuleRecordsById, per context
  ataRuleRecordsByTerritoryId, \* Tm1Context._ataRuleRecordsByTerritoryId, per context
  ataRuleItemRecordsByRuleId, \* Tm1Context._ataRuleItemRecordsByRuleId, per context
  accountSharingRules,        \* Tm1Context._accountSharingRules, per context
  leadSharingRules,           \* Tm1Context._leadSharingRules, per context
  opportunitySharingRules,    \* Tm1Context._opportunitySharingRules, per context
  got           \* outcome of the most recent read of a public accessor

modelVars == <<trapErrors, state, errors, buildOpts, loadOpts, readyBy, pending, last>>

tm2Files == <<tm1ToTm2DevnameMapCsv, territory2Csv, userTerritory2AssociationIntermediateCsv>>

tm2Maps ==
  <<territory2RecordsByDevName, territory2RecordsById,
    territoryDevNameMapByT2DevName, territoryDevNameMapByT2Id>>

tm2Vars ==
  <<tm2Files, territoryDevNameMappings, territory2Records, tm2Maps,
    objectTerritory2AssociationRecords, userTerritory2AssociationRecords,
    prepared, updated, tm2Last, tm2Completed>>

tm1CsvFiles ==
  <<accountShareCsv, ataRuleCsv, ataRuleItemCsv, territoryCsv, userTerritoryCsv>>

tm1XmlFiles == <<accountSharingRulesXml, leadSharingRulesXml, opportunitySharingRulesXml>>

\* The arrays a source context parses from its five extracts.
tm1Records ==
  <<accountShareRecords, ataRuleRecords, ataRuleItemRecords, territoryRecords,
    userTerritoryRecords>>

\* The maps a source context builds over its records.
tm1Maps ==
  <<territoryRecordsById, ataRuleRecordsById, ataRuleRecordsByTerritoryId,
    ataRuleItemRecordsByRuleId, ataRuleDevNamesByRuleId>>

\* The sharing rules a source context parses from its three metadata files.
tm1SharingRules == <<accountSharingRules, leadSharingRules, opportunitySharingRules>>

\* The members of the source contexts.
tm1Members == <<tm1Records, tm1Maps, tm1SharingRules, tm1Prepared>>

tm1Vars == <<tm1CsvFiles, tm1XmlFiles, tm1Members, tm1ContextValidation, tm1Last>>

vars == <<modelVars, tm2Vars, tm1Vars, got>>

-----------------------------------------------------------------------------
(* Bounds *)

\* Number of errors the instances may record before they take no further calls.
MaxErrors == 2

\* Longest AccountTerritoryAssignmentRule extract with freely chosen rule names.
MaxRules == 3

\* Longest AccountTerritoryAssignmentRule extract whose rules all share one name.
MaxSameName == 12

\* Most records an extract handed to validate() holds.
MaxRecords == 1

-----------------------------------------------------------------------------
(* SfdxFalconModel: values *)

\* The model instances alive at the same time.
Instances == {"m1", "m2"}

\* `opts = {} as T`: the options object used when the caller passes none.
EmptyOpts == "{}"

\* Non-empty options objects a caller may supply.
CallerOpts == {"o1", "o2"}

\* What a caller may pass as `opts`: nothing, a non-empty object, or a value
\* that TypeValidator.throwOnEmptyNullInvalidObject rejects.
OptsArgs == {"undefined", "invalid"} \cup CallerOpts

\* Ways the promise of a `_build`/`_load` hook settles: resolves true,
\* resolves false, or rejects with the hook's own error.
HookOutcomes == {"true", "false", "throw"}

\* The error a hook rejects with.
HookError == [name |-> "HookError", cause |-> "none"]

NoError == [name |-> "none", cause |-> "none"]

\* `new SfdxFalconError(message, name, source, cause)` reduced to name and cause.
SfdxFalconError(name, cause) == [name |-> name, cause |-> cause]

\* ModelState as initialised by the constructor.
InitialState ==
  [built |-> FALSE, loaded |-> FALSE, failed |-> FALSE, ready |-> FALSE, stale |-> FALSE]

\* Mutant: the success branch forgets `this._state.failed = false`.
BuiltStateKeepsFailed(s) ==
  [s EXCEPT !.built = TRUE, !.ready = TRUE, !.loaded = FALSE, !.stale = FALSE]

\* The assignments of the `.then` success branch of build().
BuiltState(s) ==
  [s EXCEPT !.built = TRUE, !.ready = TRUE, !.loaded = FALSE, !.failed = FALSE, !.stale = FALSE]

\* Mutant: the success branch of load() forgets `this._state.built = false`.
LoadedStateKeepsBuilt(s) ==
  [s EXCEPT !.loaded = TRUE, !.ready = TRUE, !.failed = FALSE, !.stale = FALSE]

\* The assignments of the `.then` success branch of load().
LoadedState(s) ==
  [s EXCEPT !.loaded = TRUE, !.ready = TRUE, !.built = FALSE, !.failed = FALSE, !.stale = FALSE]

\* Mutant: the `.catch` handler forgets `this._state.failed = true`.
FailedStateNotFlagged(s) ==
  [s EXCEPT !.built = FALSE, !.ready = FALSE, !.loaded = FALSE, !.stale = FALSE]

\* Mutant: the `.catch` handler forgets `this._state.ready = false`.
FailedStateStaysReady(s) ==
  [s EXCEPT !.failed = TRUE, !.built = FALSE, !.loaded = FALSE, !.stale = FALSE]

\* The assignments at the top of the `.catch` handlers of build/load/refresh.
FailedState(s) ==
  [s EXCEPT !.failed = TRUE, !.built = FALSE, !.ready = FALSE, !.loaded = FALSE, !.stale = FALSE]

\* No call has completed yet.
NoCall ==
  [self |-> "none", op |-> "none", result |-> "none",
   error |-> NoError, invoked |-> <<>>, outcome |-> "none"]

\* No hook has made the instance ready yet.
NoHook == [hook |-> "none", opts |-> "none"]

\* A call that ended (returned `this._state` or threw) after invoking `invoked`.
Completed(call, result, error, outcome) ==
  [self |-> call.self, op |-> call.op, result |-> result,
   error |-> error, invoked |-> call.invoked, outcome |-> outcome]

\* A call as it is entered: nothing invoked yet.
Entered(self, op) ==
  [self |-> self, op |-> op, invoked |-> <<>>]

\* The same call after it has invoked `hook(opts)` and awaits its promise.
Awaiting(call, hook, opts) ==
  [call EXCEPT !.invoked = Append(@, [hook |-> hook, opts |-> opts])]

-----------------------------------------------------------------------------
(* SfdxFalconModel: constructor *)

modelInit ==
  /\ trapErrors \in [Instances -> BOOLEAN]
  /\ state = [i \in Instances |-> InitialState]
  /\ errors = [i \in Instances |-> <<>>]
  /\ buildOpts = [i \in Instances |-> EmptyOpts]
  /\ loadOpts = [i \in Instances |-> EmptyOpts]
  /\ readyBy = [i \in Instances |-> NoHook]
  /\ pending = <<>>
  /\ last = NoCall

RECURSIVE Recorded(_)
\* Number of errors recorded by the instances of the set.
Recorded(insts) ==
  IF insts = {} THEN 0
  ELSE LET i == CHOOSE x \in insts : TRUE IN Len(errors[i]) + Recorded(insts \ {i})

\* The sequence without its k-th element.
RemoveAt(seq, k) == SubSeq(seq, 1, k - 1) \o SubSeq(seq, k + 1, Len(seq))

\* Calls are awaited one at a time, and no further call is taken once
\* MaxErrors errors have been recorded.
MayCall(self) == pending = <<>> /\ Recorded(Instances) < MaxErrors

-----------------------------------------------------------------------------
(* SfdxFalconModel: build, load, refresh *)

\* Mutant: the already-ready guard is missing.
AlreadyReadyIgnored(self) == FALSE

\* `if (this._state.ready)` at the top of build() and load().
AlreadyReady(self) == state[self].ready

\* Mutant: the options argument is not validated.
InvalidOptsAccepted(arg) == FALSE

\* TypeValidator.throwOnEmptyNullInvalidObject(opts, ...) throws.
InvalidOpts(arg) == arg = "invalid"

\* Mutant: error trapping is one setting shared by all instances.
PropagatesShared(self) == \E i \in Instances : trapErrors[i] # TRUE

\* `if (this.trapErrors !== true) throw caughtError;`
Propagates(self) == trapErrors[self] # TRUE

\* Mutant: only a rejected promise counts as a failure.
SucceededUnlessThrown(outcome) == outcome # "throw"

\* `if (success)` in the `.then` handler: the hook's promise resolved to true.
Succeeded(outcome) == outcome = "true"

\* The `.catch` handler shared by build(), load() and the build path of
\* refresh(): flags, then the wrapped error is saved, then thrown or trapped.
hookFailed(call, errName, outcome) ==
  LET self == call.self
      cause == IF outcome = "throw" THEN HookError.name ELSE errName
      caughtError == SfdxFalconError(errName, cause)
  IN /\ state' = [state EXCEPT ![self] = FailedState(@)]
     /\ errors' = [errors EXCEPT ![self] = Append(@, caughtError)]
     /\ last' = IF Propagates(self)
                  THEN Completed(call, "threw", caughtError, outcome)
                  ELSE Completed(call, "returned", NoError, outcome)
     /\ UNCHANGED readyBy

\* build(opts) up to `await this._build(opts)`.
buildEntered(self, arg) ==
  /\ LET call == Entered(self, "build")
         opts == IF arg = "undefined" THEN EmptyOpts ELSE arg
     IN IF AlreadyReady(self)
          THEN /\ last' = Completed(call, "threw", SfdxFalconError("BuildError", "none"), "none")
               /\ UNCHANGED <<buildOpts, pending>>
          ELSE IF InvalidOpts(arg)
            THEN /\ last' = Completed(call, "threw", SfdxFalconError("TypeError", "none"), "none")
                 /\ UNCHANGED <<buildOpts, pending>>
            ELSE /\ buildOpts' = [buildOpts EXCEPT ![self] = opts]
                 /\ pending' = Append(pending, Awaiting(call, "_build", opts))
                 /\ UNCHANGED last
  /\ UNCHANGED <<trapErrors, state, errors, loadOpts, readyBy>>

\* build(opts) called while no other call is awaited.
build(self, arg) == MayCall(self) /\ buildEntered(self, arg)

\* The `.then`/`.catch` chain of build() once the `_build` promise settles.
buildSettledAt(k, outcome) ==
  /\ k \in 1..Len(pending)
  /\ pending[k].op = "build"
  /\ LET call == pending[k]
     IN IF Succeeded(outcome)
          THEN /\ state' = [state EXCEPT ![call.self] = BuiltState(@)]
               /\ readyBy' = [readyBy EXCEPT ![call.self] = call.invoked[1]]
               /\ last' = Completed(call, "returned", NoError, outcome)
               /\ UNCHANGED errors
          ELSE hookFailed(call, "BuildError", outcome)
  /\ pending' = RemoveAt(pending, k)
  /\ UNCHANGED <<trapErrors, buildOpts, loadOpts>>

\* The call awaited first is the one that settles.
buildSettled(outcome) == buildSettledAt(1, outcome)

\* load(opts) up to `await this._load(opts)`.
loadEntered(self, arg) ==
  /\ LET call == Entered(self, "load")
         opts == IF arg = "undefined" THEN EmptyOpts ELSE arg
     IN IF AlreadyReady(self)
          THEN /\ last' = Completed(call, "threw", SfdxFalconError("LoadingError", "none"), "none")
               /\ UNCHANGED <<loadOpts, pending>>
          ELSE IF InvalidOpts(arg)
            THEN /\ last' = Completed(call, "threw", SfdxFalconError("TypeError", "none"), "none")
                 /\ UNCHANGED <<loadOpts, pending>>
            ELSE /\ loadOpts' = [loadOpts EXCEPT ![self] = opts]
                 /\ pending' = Append(pending, Awaiting(call, "_load", opts))
                 /\ UNCHANGED last
  /\ UNCHANGED <<trapErrors, state, errors, buildOpts, readyBy>>

\* load(opts) called while no other call is awaited.
load(self, arg) == MayCall(self) /\ loadEntered(self, arg)

\* The `.then`/`.catch` chain of load() once the `_load` promise settles.
loadSettledAt(k, outcome) ==
  /\ k \in 1..Len(pending)
  /\ pending[k].op = "load"
  /\ LET call == pending[k]
     IN IF Succeeded(outcome)
          THEN /\ state' = [state EXCEPT ![call.self] = LoadedState(@)]
               /\ readyBy' = [readyBy EXCEPT ![call.self] = call.invoked[1]]
               /\ last' = Completed(call, "returned", NoError, outcome)
               /\ UNCHANGED errors
          ELSE hookFailed(call, "LoadingError", outcome)
  /\ pending' = RemoveAt(pending, k)
  /\ UNCHANGED <<trapErrors, buildOpts, loadOpts>>

\* The call awaited first is the one that settles.
loadSettled(outcome) == loadSettledAt(1, outcome)

\* Mutant: refresh() replays the load options on the build path.
cachedBuildOptsSwapped(self) == loadOpts[self]

\* `this._buildOpts` as refresh() hands it to `_build`.
cachedBuildOpts(self) == buildOpts[self]

\* `this._loadOpts` as refresh() hands it to `_load`.
cachedLoadOpts(self) == loadOpts[self]

\* Mutant: the not-ready guard is missing.
NotReadyIgnored(self) == FALSE

\* `if (this._state.ready !== true)` at the top of refresh().
NotReady(self) == state[self].ready # TRUE

\* refresh() up to its `await this._build(...)` or `await this._load(...)`.
\* The cached options are always objects (`{}` at least), so the
\* throwOnNullInvalidObject checks on them never throw.
refreshEntered(self) ==
  /\ LET call == Entered(self, "refresh")
     IN IF NotReady(self)
          THEN /\ last' = Completed(call, "threw", SfdxFalconError("RefreshError", "none"), "none")
               /\ UNCHANGED pending
          ELSE IF state[self].built
            THEN /\ pending' = Append(pending, Awaiting(call, "_build", cachedBuildOpts(self)))
                 /\ UNCHANGED last
            ELSE IF state[self].loaded
              THEN /\ pending' = Append(pending, Awaiting(call, "_load", cachedLoadOpts(self)))
                   /\ UNCHANGED last
              ELSE /\ last' = Completed(call, "threw", SfdxFalconError("ERROR_NAME", "none"), "none")
                   /\ UNCHANGED pending
  /\ UNCHANGED <<trapErrors, state, errors, buildOpts, loadOpts, readyBy>>

\* refresh() called while no other call is awaited.
refresh(self) == MayCall(self) /\ refreshEntered(self)

\* refresh() via `_build`: the same `.then`/`.catch` chain as build().
refreshBuildSettledAt(k, outcome) ==
  /\ k \in 1..Len(pending)
  /\ pending[k].op = "refresh"
  /\ pending[k].invoked[1].hook = "_build"
  /\ LET call == pending[k]
     IN IF Succeeded(outcome)
          THEN /\ state' = [state EXCEPT ![call.self] = BuiltState(@)]
               /\ UNCHANGED readyBy
               /\ last' = Completed(call, "returned", NoError, outcome)
               /\ UNCHANGED errors
          ELSE hookFailed(call, "BuildError", outcome)
  /\ pending' = RemoveAt(pending, k)
  /\ UNCHANGED <<trapErrors, buildOpts, loadOpts>>

\* The call awaited first is the one that settles.
refreshBuildSettled(outcome) == refreshBuildSettledAt(1, outcome)

\* refresh() via `_load`: `.then().catch()` installs no handler, so a
\* rejection is rethrown as it is and a resolved promise falls through to
\* the unconditional `throw new SfdxFalconError('ERROR_MESSAGE', 'ERROR_NAME')`.
refreshLoadSettledAt(k, outcome) ==
  /\ k \in 1..Len(pending)
  /\ pending[k].op = "refresh"
  /\ pending[k].invoked[1].hook = "_load"
  /\ LET call == pending[k]
     IN last' = IF outcome = "throw"
                  THEN Completed(call, "threw", HookError, outcome)
                  ELSE Completed(call, "threw", SfdxFalconError("ERROR_NAME", "none"), outcome)
  /\ pending' = RemoveAt(pending, k)
  /\ UNCHANGED <<trapErrors, state, errors, buildOpts, loadOpts, readyBy>>

\* The call awaited first is the one that settles.
refreshLoadSettled(outcome) == refreshLoadSettledAt(1, outcome)

-----------------------------------------------------------------------------
(* Tm2Context: strings, records and files *)

\* `const territory2RecordIdPrefix = '0MI'`.
territory2RecordIdPrefix == <<"0", "M", "I">>

\* The literal 'T2ID_PENDING_' tested by getConvertedT2Id.
PendingPrefix == <<"T", "2", "I", "D", "_", "P", "E", "N", "D", "I", "N", "G", "_">>

\* String.prototype.startsWith.
startsWith(str, prefix) ==
  Len(str) >= Len(prefix) /\ SubSeq(str, 1, Len(prefix)) = prefix

\* String.prototype.substring(start).
substring(str, start) == SubSeq(str, start + 1, Len(str))

\* The empty string.
Empty == <<>>

\* A field a row does not have (`typeof ... === 'undefined'`).
Undefined == <<"undefined">>

\* A file holding the given rows.
File(rows) == [exists |-> TRUE, rows |-> rows]

\* A file that is not there or cannot be read.
Absent == [exists |-> FALSE, rows |-> <<>>]

\* Territory2 Developer Names.
DevA == <<"A">>
DevB == <<"B">>
DevC == <<"C">>

\* Territory2 record Ids.
Id1 == territory2RecordIdPrefix \o <<"1">>
Id2 == territory2RecordIdPrefix \o <<"2">>
Id3 == territory2RecordIdPrefix \o <<"3">>

\* A Territory2Record as parsed from Territory2.csv.
Territory2Record(id, devName) == [Id |-> id, DeveloperName |-> devName]

\* A TerritoryDevNameMapping row as written by the transform stage: its two
\* Id columns are still empty.
TerritoryDevNameMapping(devName, parentDevName) ==
  [territory2DevName |-> devName, territory2ParentDevName |-> parentDevName,
   territory2Id |-> Empty, territory2ParentId |-> Empty]

\* A row of UserTerritory2Association.intermediate.csv.
AssociationRow(userId, t2Id) ==
  [UserId |-> userId, Territory2Id |-> t2Id, territory2Id |-> Undefined]

\* The pending Territory2 Id written for a Developer Name.
Pending(devName) == PendingPrefix \o devName

\* Contents the mapping table may have.
MappingTables ==
  { File(<<TerritoryDevNameMapping(DevA, Empty), TerritoryDevNameMapping(DevB, DevA)>>),
    File(<<TerritoryDevNameMapping(DevA, Empty), TerritoryDevNameMapping(DevC, DevB)>>),
    File(<<TerritoryDevNameMapping(DevB, Empty)>>) }

\* Contents the Territory2 extract may have, before and after deployments.
Extracts ==
  { Absent,
    File(<<>>),
    File(<<Territory2Record(Id1, DevA)>>),
    File(<<Territory2Record(Id1, DevA), Territory2Record(Id2, DevB)>>),
    File(<<Territory2Record(Id3, DevB)>>) }

\* Contents the intermediate association file may have.
IntermediateFiles ==
  { File(<<>>),
    File(<<AssociationRow("U1", Pending(DevB))>>),
    File(<<AssociationRow("U1", Pending(DevA)), AssociationRow("U2", Pending(DevC))>>),
    File(<<AssociationRow("U1", Id1), AssociationRow("U2", Pending(DevA))>>),
    File(<<AssociationRow("U1", Id2), AssociationRow("U2", Empty)>>),
    File(<<AssociationRow("U1", Undefined)>>) }

\* The receiver a row callback can run with: `onRowData` is handed over as
\* the bare method `this.transformPendingT2Id`, so it runs against the
\* context only if csv.transformFile calls it that way.
CallbackReceivers == {"context", "options"}

NoTm2Error == "none"

\* No Tm2Context call has completed yet.
NoTm2Call == [op |-> "none", result |-> "none", error |-> NoTm2Error]

\* A call that returned.
Returned(op) == [op |-> op, result |-> "returned", error |-> NoTm2Error]

\* A call that threw an error of the given name.
Threw(op, name) == [op |-> op, result |-> "threw", error |-> name]

\* A value or the name of the error thrown instead of it.
Value(v) == [error |-> NoTm2Error, value |-> v]
Thrown(name) == [error |-> name, value |-> Empty]

\* What a read that threw has handed out.
Nothing == "nothing"

\* No accessor has been read yet.
NoRead ==
  [of |-> "none", accessor |-> "none", result |-> "none", error |-> NoTm2Error,
   value |-> Nothing]

\* The read of an accessor of `of` that returned the value.
Got(of, accessor, value) ==
  [of |-> of, accessor |-> accessor, result |-> "returned", error |-> NoTm2Error,
   value |-> value]

\* The read of an accessor of `of` that threw the error.
GotError(of, accessor, error) ==
  [of |-> of, accessor |-> accessor, result |-> "threw", error |-> error, value |-> Nothing]

\* csv.parseFile: the rows of the file, or a rejection when it cannot be read.
parseFile(file) == IF ~file.exists THEN Thrown("CsvError") ELSE Value(file.rows)

\* Map.prototype.set on a map kept as a function.
MapSet(map, key, value) == [k \in DOMAIN map \cup {key} |-> IF k = key THEN value ELSE map[k]]

\* `new Map()`.
EmptyMap == [k \in {} |-> Empty]

-----------------------------------------------------------------------------
(* Tm2Context: private helpers *)

RECURSIVE T2RecordsByDevName(_, _, _)
\* buildT2RecordsByDevNameMap: set every record under its DeveloperName.
T2RecordsByDevName(map, records, i) ==
  IF i > Len(records) THEN map
  ELSE T2RecordsByDevName(MapSet(map, records[i].DeveloperName, records[i]), records, i + 1)

\* buildT2RecordsByDevNameMap.
buildT2RecordsByDevNameMap(map, records) == T2RecordsByDevName(map, records, 1)

RECURSIVE T2RecordsById(_, _, _)
\* buildT2RecordsByIdMap: set every record under its Id.
T2RecordsById(map, records, i) ==
  IF i > Len(records) THEN map
  ELSE T2RecordsById(MapSet(map, records[i].Id, records[i]), records, i + 1)

\* buildT2RecordsByIdMap.
\* Mutant: the by-Id map is left as it was.
buildT2RecordsByIdMapSkipped(map, records) == map

buildT2RecordsByIdMap(map, records) == T2RecordsById(map, records, 1)

RECURSIVE DevNameMapByT2DevName(_, _, _)
\* buildTerritoryDevNameMapByT2DevName: the map holds the mapping objects
\* themselves, kept here as their positions in _territoryDevNameMappings.
DevNameMapByT2DevName(map, mappings, i) ==
  IF i > Len(mappings) THEN map
  ELSE DevNameMapByT2DevName(MapSet(map, mappings[i].territory2DevName, i), mappings, i + 1)

\* buildTerritoryDevNameMapByT2DevName.
buildTerritoryDevNameMapByT2DevName(map, mappings) == DevNameMapByT2DevName(map, mappings, 1)

RECURSIVE DevNameMapByT2Id(_, _, _)
\* buildTerritoryDevNameMapByT2Id: only Ids that start with '0MI' are keys.
DevNameMapByT2Id(map, mappings, i) ==
  IF i > Len(mappings) THEN map
  ELSE IF startsWith(mappings[i].territory2Id, territory2RecordIdPrefix)
    THEN DevNameMapByT2Id(MapSet(map, mappings[i].territory2Id, i), mappings, i + 1)
    ELSE DevNameMapByT2Id(map, mappings, i + 1)

RECURSIVE DevNameMapByT2IdOfAll(_, _, _)
\* Every mapping row indexed, whatever its territory2Id.
DevNameMapByT2IdOfAll(map, mappings, i) ==
  IF i > Len(mappings) THEN map
  ELSE DevNameMapByT2IdOfAll(MapSet(map, mappings[i].territory2Id, i), mappings, i + 1)

\* Mutant: the test of the record-id prefix is missing.
buildTerritoryDevNameMapByT2IdOfAll(map, mappings) == DevNameMapByT2IdOfAll(map, mappings, 1)

\* buildTerritoryDevNameMapByT2Id.
buildTerritoryDevNameMapByT2Id(map, mappings) == DevNameMapByT2Id(map, mappings, 1)

\* lookupTerritory2Id against a by-DeveloperName map.
lookupTerritory2Id(byDevName, territory2DevName) ==
  IF territory2DevName = Undefined \/ territory2DevName = Empty
    THEN Thrown("TypeError")
    ELSE IF territory2DevName \notin DOMAIN byDevName
      THEN Thrown("DeveloperNameNotFound")
      ELSE Value(byDevName[territory2DevName].Id)

\* One pass of the loop body of updateRecordMaps over mapping row i: the row
\* is assigned its Id, then (if it has a parent) its parent Id; a lookup
\* that throws leaves what was assigned so far.
updateMapping(byDevName, mappings, i) ==
  LET row == mappings[i]
      id == lookupTerritory2Id(byDevName, row.territory2DevName)
      withId == [mappings EXCEPT ![i].territory2Id = id.value]
      parentId == lookupTerritory2Id(byDevName, row.territory2ParentDevName)
  IN IF id.error # NoTm2Error
       THEN [error |-> id.error, value |-> mappings]
       ELSE IF row.territory2ParentDevName = Empty
         THEN Value(withId)
         ELSE IF parentId.error # NoTm2Error
           THEN [error |-> parentId.error, value |-> withId]
           ELSE Value([withId EXCEPT ![i].territory2ParentId = parentId.value])

RECURSIVE updateMappings(_, _, _)
\* The `for (const territoryDevNameMapping of ...)` loop of updateRecordMaps
\* from row i on: it stops at the first lookup that throws.
updateMappings(byDevName, mappings, i) ==
  IF i > Len(mappings) THEN Value(mappings)
  ELSE LET step == updateMapping(byDevName, mappings, i)
       IN IF step.error # NoTm2Error THEN step
          ELSE updateMappings(byDevName, step.value, i + 1)

\* Mutant: every string is looked up as a Developer Name.
getConvertedT2IdOfAny(byDevName, pendingT2Id) ==
  IF pendingT2Id = Undefined
    THEN Value(Empty)
    ELSE lookupTerritory2Id(byDevName, pendingT2Id)

\* getConvertedT2Id.
getConvertedT2Id(byDevName, pendingT2Id) ==
  IF pendingT2Id = Undefined \/ ~startsWith(pendingT2Id, PendingPrefix)
    THEN Value(Empty)
    ELSE lookupTerritory2Id(byDevName, substring(pendingT2Id, 13))

\* isUpdated: throws ObjectNotUpdated unless _updated is true.
isUpdated(isUpd) == IF isUpd # TRUE THEN Thrown("ObjectNotUpdated") ELSE Value(isUpd)

\* transformPendingT2Id on one row.
transformPendingT2Id(isUpd, byDevName, data) ==
  LET t2Id == getConvertedT2Id(byDevName, data.Territory2Id)
  IN IF isUpdated(isUpd).error # NoTm2Error
       THEN Thrown(isUpdated(isUpd).error)
       ELSE IF data.Territory2Id = Undefined \/ data.territory2Id = Empty
         THEN Thrown("TypeError")
         ELSE IF t2Id.error # NoTm2Error
           THEN Thrown(t2Id.error)
           ELSE IF t2Id.value # Empty
             THEN Value([data EXCEPT !.territory2Id = t2Id.value])
             ELSE Value(data)

\* The row callback as csv.transformFile runs it: against the context, or
\* with another receiver, where `this.isUpdated` is not a function.
onRowData(receiver, isUpd, byDevName, data) ==
  IF receiver = "context"
    THEN transformPendingT2Id(isUpd, byDevName, data)
    ELSE Thrown("TypeError")

RECURSIVE transformRows(_, _, _, _, _)
\* Rows i.. of the file passed through the callback, in order;
\* the first row whose callback throws ends the stream with that error.
transformRows(receiver, isUpd, byDevName, rows, i) ==
  IF i > Len(rows) THEN Value(<<>>)
  ELSE LET row == onRowData(receiver, isUpd, byDevName, rows[i])
           rest == transformRows(receiver, isUpd, byDevName, rows, i + 1)
       IN IF row.error # NoTm2Error THEN Thrown(row.error)
          ELSE IF rest.error # NoTm2Error THEN rest
          ELSE Value(<<row.value>> \o rest.value)

\* Mutant: a row whose callback throws is passed on as it is.
transformFileIgnoringErrors(file, receiver, isUpd, byDevName) ==
  IF ~file.exists THEN Thrown("CsvError") ELSE Value(file.rows)

\* csv.transformFile(path, {onRowData}): every row of the file transformed
\* by the callback, in file order.
transformFile(file, receiver, isUpd, byDevName) ==
  IF ~file.exists THEN Thrown("CsvError")
  ELSE transformRows(receiver, isUpd, byDevName, file.rows, 1)

-----------------------------------------------------------------------------
(* Tm2Context: constructor and public methods *)

\* The files on disk when the context is constructed, and the members as
\* the private constructor leaves them.
tm2Init ==
  /\ tm1ToTm2DevnameMapCsv \in MappingTables \cup {Absent}
  /\ territory2Csv \in Extracts
  /\ userTerritory2AssociationIntermediateCsv \in IntermediateFiles
  /\ territoryDevNameMappings = <<>>
  /\ territory2Records = <<>>
  /\ territory2RecordsByDevName = EmptyMap
  /\ territory2RecordsById = EmptyMap
  /\ territoryDevNameMapByT2DevName = EmptyMap
  /\ territoryDevNameMapByT2Id = EmptyMap
  /\ objectTerritory2AssociationRecords = <<>>
  /\ userTerritory2AssociationRecords = <<>>
  /\ prepared = FALSE
  /\ updated = FALSE
  /\ tm2Last = NoTm2Call
  /\ tm2Completed = {}

\* A call that returns is added to the history of completed calls.
noteCompleted ==
  tm2Completed' = IF tm2Last'.result = "returned"
                    THEN tm2Completed \cup {tm2Last'.op}
                    ELSE tm2Completed

\* Tm2Context.prepare: parseCsvFiles, buildRecordMaps, then _prepared. When
\* the mapping table cannot be parsed no context is returned.
prepare ==
  /\ ~prepared
  /\ LET mappings == parseFile(tm1ToTm2DevnameMapCsv)
         parsed == parseFile(territory2Csv)
         records == IF parsed.error # NoTm2Error THEN <<>> ELSE parsed.value
     IN IF mappings.error # NoTm2Error
          THEN /\ tm2Last' = Threw("prepare", mappings.error)
               /\ UNCHANGED <<territoryDevNameMappings, territory2Records, tm2Maps, prepared>>
          ELSE /\ territoryDevNameMappings' = mappings.value
               /\ territory2Records' = records
               /\ territoryDevNameMapByT2DevName' =
                    buildTerritoryDevNameMapByT2DevName(territoryDevNameMapByT2DevName, mappings.value)
               /\ territoryDevNameMapByT2Id' =
                    buildTerritoryDevNameMapByT2Id(territoryDevNameMapByT2Id, mappings.value)
               /\ territory2RecordsByDevName' =
                    buildT2RecordsByDevNameMap(territory2RecordsByDevName, records)
               /\ territory2RecordsById' =
                    buildT2RecordsByIdMap(territory2RecordsById, records)
               /\ prepared' = TRUE
               /\ tm2Last' = Returned("prepare")
  /\ noteCompleted
  /\ UNCHANGED <<tm2Files, objectTerritory2AssociationRecords,
                 userTerritory2AssociationRecords, updated>>

\* Mutant: the check for an extract without records is missing.
noRecordsIgnored(records) == FALSE

\* `if (this._territory2Records.length === 0)` in updateRecordMaps.
noRecords(records) == Len(records) = 0

\* Mutant: `this._updated = true` is placed ahead of the loop over the
\* mapping rows, so it runs although a lookup throws afterwards.
reachesUpdatedBeforeLoop(error) == TRUE

\* `this._updated = true` is the last statement of updateRecordMaps: it is
\* reached only when no lookup of the loop has thrown.
reachesUpdated(error) == error = NoTm2Error

\* Tm2Context.updateRecordMaps.
updateRecordMaps ==
  /\ prepared
  /\ LET parsed == parseFile(territory2Csv)
         byDevName == buildT2RecordsByDevNameMap(territory2RecordsByDevName, parsed.value)
         byId == buildT2RecordsByIdMap(territory2RecordsById, parsed.value)
         resolved == updateMappings(byDevName, territoryDevNameMappings, 1)
     IN IF parsed.error # NoTm2Error
          THEN /\ tm2Last' = Threw("updateRecordMaps", "CsvParsingError")
               /\ UNCHANGED <<territoryDevNameMappings, territory2Records, tm2Maps, updated>>
          ELSE IF noRecords(parsed.value)
            THEN /\ territory2Records' = parsed.value
                 /\ tm2Last' = Threw("updateRecordMaps", "CsvFileEmpty")
                 /\ UNCHANGED <<territoryDevNameMappings, tm2Maps, updated>>
            ELSE /\ territory2Records' = parsed.value
                 /\ territory2RecordsByDevName' = byDevName
                 /\ territory2RecordsById' = byId
                 /\ territoryDevNameMappings' = resolved.value
                 /\ UNCHANGED territoryDevNameMapByT2DevName
                 /\ updated' = IF reachesUpdated(resolved.error) THEN TRUE ELSE updated
                 /\ IF resolved.error # NoTm2Error
                      THEN /\ tm2Last' = Threw("updateRecordMaps", resolved.error)
                           /\ UNCHANGED territoryDevNameMapByT2Id
                      ELSE /\ territoryDevNameMapByT2Id' =
                                buildTerritoryDevNameMapByT2Id(territoryDevNameMapByT2Id, resolved.value)
                           /\ tm2Last' = Returned("updateRecordMaps")
  /\ noteCompleted
  /\ UNCHANGED <<tm2Files, objectTerritory2AssociationRecords,
                 userTerritory2AssociationRecords, prepared>>

\* Tm2Context.buildUserT2AssociationRecords.
buildUserT2AssociationRecords(receiver) ==
  /\ prepared
  /\ LET built == transformFile(userTerritory2AssociationIntermediateCsv, receiver,
                                updated, territory2RecordsByDevName)
     IN IF Len(userTerritory2AssociationRecords) # 0
          THEN /\ tm2Last' = Threw("buildUserT2AssociationRecords", "RecordBuildError")
               /\ UNCHANGED userTerritory2AssociationRecords
          ELSE IF built.error # NoTm2Error
            THEN /\ tm2Last' = Threw("buildUserT2AssociationRecords", built.error)
                 /\ UNCHANGED userTerritory2AssociationRecords
            ELSE /\ userTerritory2AssociationRecords' = built.value
                 /\ tm2Last' = Returned("buildUserT2AssociationRecords")
  /\ noteCompleted
  /\ UNCHANGED <<tm2Files, territoryDevNameMappings, territory2Records, tm2Maps,
                 objectTerritory2AssociationRecords, prepared, updated>>

\* Tm2Context.buildObjectT2AssociationRecords: the guard and nothing else.
buildObjectT2AssociationRecords ==
  /\ prepared
  /\ tm2Last' = IF Len(objectTerritory2AssociationRecords) # 0
                  THEN Threw("buildObjectT2AssociationRecords", "RecordBuildError")
                  ELSE Returned("buildObjectT2AssociationRecords")
  /\ noteCompleted
  /\ UNCHANGED <<tm2Files, territoryDevNameMappings, territory2Records, tm2Maps,
                 objectTerritory2AssociationRecords, userTerritory2AssociationRecords,
                 prepared, updated>>

\* The deployment outside the context rewrites the Territory2 extract.
writeTerritory2Csv(extract) ==
  /\ territory2Csv # extract
  /\ territory2Csv' = extract
  /\ UNCHANGED <<tm1ToTm2DevnameMapCsv, userTerritory2AssociationIntermediateCsv,
                 territoryDevNameMappings, territory2Records, tm2Maps,
                 objectTerritory2AssociationRecords, userTerritory2AssociationRecords,
                 prepared, updated, tm2Last, tm2Completed>>

\* The public accessors of Tm2Context that hand out records and maps.
Tm2Accessors ==
  { "objectTerritory2AssociationRecords", "territory2Records", "territory2RecordsByDevName",
    "territory2RecordsById", "territoryDevNameMapByT2DevName", "territoryDevNameMapByT2Id",
    "territoryDevNameMappings", "userTerritory2AssociationRecords" }

\* The private member behind an accessor.
tm2Member(accessor) ==
  CASE accessor = "objectTerritory2AssociationRecords" -> objectTerritory2AssociationRecords
    [] accessor = "territory2Records" -> territory2Records
    [] accessor = "territory2RecordsByDevName" -> territory2RecordsByDevName
    [] accessor = "territory2RecordsById" -> territory2RecordsById
    [] accessor = "territoryDevNameMapByT2DevName" -> territoryDevNameMapByT2DevName
    [] accessor = "territoryDevNameMapByT2Id" -> territoryDevNameMapByT2Id
    [] accessor = "territoryDevNameMappings" -> territoryDevNameMappings
    [] accessor = "userTerritory2AssociationRecords" -> userTerritory2AssociationRecords

\* Mutant: isPrepared() returns the flag and never throws.
isPreparedUnchecked == Value(prepared)

\* isPrepared: throws ObjectNotPrepared unless _prepared is true.
isPrepared == IF prepared # TRUE THEN Thrown("ObjectNotPrepared") ELSE Value(prepared)

\* `get x() { return this.isPrepared() ? this._x : undefined; }`
getTm2(accessor) ==
  /\ got' = IF isPrepared.error # NoTm2Error
              THEN GotError("Tm2Context", accessor, isPrepared.error)
              ELSE IF isPrepared.value
                THEN Got("Tm2Context", accessor, tm2Member(accessor))
                ELSE Got("Tm2Context", accessor, Nothing)
  /\ UNCHANGED <<modelVars, tm2Vars, tm1Vars>>

tm2Next ==
  \/ prepare
  \/ updateRecordMaps
  \/ \E receiver \in CallbackReceivers : buildUserT2AssociationRecords(receiver)
  \/ buildObjectT2AssociationRecords
  \/ \E extract \in Extracts : writeTerritory2Csv(extract)

-----------------------------------------------------------------------------
(* Tm1Context: strings, records and files *)

\* The Tm1Context instances alive at the same time.
Contexts == {"c1", "c2"}

\* `const devNameMaxLength = 80`.
devNameMaxLength == 80

\* The characters a Developer Name may hold.
WordChars ==
  { "A", "B", "C", "D", "E", "F", "G", "H", "I", "J", "K", "L", "M",
    "N", "O", "P", "Q", "R", "S", "T", "U", "V", "W", "X", "Y", "Z",
    "a", "b", "c", "d", "e", "f", "g", "h", "i", "j", "k", "l", "m",
    "n", "o", "p", "q", "r", "s", "t", "u", "v", "w", "x", "y", "z",
    "0", "1", "2", "3", "4", "5", "6", "7", "8", "9", "_" }

\* The decimal digits, by value.
Digits == <<"0", "1", "2", "3", "4", "5", "6", "7", "8", "9">>

\* Mutant: only the last digit of the counter is written.
toStringLastDigit(n) == <<Digits[(n % 10) + 1]>>

RECURSIVE toString(_)
\* Number.prototype.toString of a non-negative integer.
toString(n) ==
  IF n < 10 THEN <<Digits[n + 1]>>
  ELSE toString(n \div 10) \o <<Digits[(n % 10) + 1]>>

\* String.prototype.substring(0, indexEnd): an end below 0 counts as 0, one
\* beyond the string as its length.
substringTo(str, indexEnd) ==
  IF indexEnd <= 0 THEN Empty
  ELSE IF indexEnd >= Len(str) THEN str
  ELSE SubSeq(str, 1, indexEnd)

\* createDeveloperName: every character a Developer Name may not hold is
\* replaced by an underscore, and the result is cut to the length a
\* Developer Name may have.
createDeveloperName(name) ==
  substringTo([i \in 1..Len(name) |-> IF name[i] \in WordChars THEN name[i] ELSE "_"],
              devNameMaxLength)

\* Names of AccountTerritoryAssignmentRule records.
EastRegion == <<"E", "a", "s", "t", " ", "R", "e", "g", "i", "o", "n">>
EastDashRegion == <<"E", "a", "s", "t", "-", "R", "e", "g", "i", "o", "n">>
EastRegion2 == <<"E", "a", "s", "t", "_", "R", "e", "g", "i", "o", "n", "2">>
West == <<"W", "e", "s", "t">>

\* A name as long as a Developer Name may be, and one that is longer.
LongName == [i \in 1..devNameMaxLength |-> "L"]
LongerName == [i \in 1..(devNameMaxLength + 1) |-> "L"]

\* A name of that length with the digit 1 at the place where a suffix of two
\* digits begins: cut for the suffix 12 it is the name cut for the suffix 2.
DigitName == [i \in 1..devNameMaxLength |-> IF i = devNameMaxLength - 1 THEN "1" ELSE "L"]

\* The names the rules of an extract may carry.
RuleNames == {EastRegion, EastDashRegion, EastRegion2, West, LongName, LongerName}

\* Ids of Territory records.
TerrA == "TerrA"
TerrB == "TerrB"

\* An AtaRuleRecord as parsed from AccountTerritoryAssignmentRule.csv.
AtaRuleRecord(id, name, territoryId) == [Id |-> id, Name |-> name, TerritoryId |-> territoryId]

\* The extract of the rules with the given names, in order; the rule at
\* position i has the record Id i, and all belong to one territory.
AtaRuleFile(names) == File([i \in 1..Len(names) |-> AtaRuleRecord(i, names[i], TerrA)])

\* Contents AccountTerritoryAssignmentRule.csv may have: up to MaxRules rules
\* of any names, or up to MaxSameName rules of one of the long names.
AtaRuleFiles ==
  {Absent}
    \cup {AtaRuleFile(names) : names \in UNION {[1..n -> RuleNames] : n \in 0..MaxRules}}
    \cup {AtaRuleFile([i \in 1..n |-> LongName]) : n \in (MaxRules + 1)..MaxSameName}
    \cup {AtaRuleFile([i \in 1..n |-> DigitName]) : n \in (MaxRules + 1)..MaxSameName}

\* A record of one of the other extracts.
ExtractRecord(id) == [Id |-> id]

\* An extract of n records.
ExtractOf(n) == File([i \in 1..n |-> ExtractRecord(i)])

\* An AccountTerritoryAssignmentRule extract of n rules of one name.
AtaRuleExtractOf(n) == AtaRuleFile([i \in 1..n |-> West])

\* The numbers of records of one kind an analysis report may expect.
ExpectedCounts == {0, 1}

\* The tm1RecordCounts an analysis report may carry.
AnalysisReports ==
  [territoryRecordCount : ExpectedCounts, ataRuleRecordCount : ExpectedCounts,
   ataRuleItemRecordCount : ExpectedCounts, userTerritoryRecordCount : ExpectedCounts,
   accountShareRecordCount : ExpectedCounts, sharingCriteriaRuleCount : {0},
   sharingOwnerRuleCount : {0}, sharingTerritoryRuleCount : {0}]

\* A sharing-rules file that is not there.
NoXml == [exists |-> FALSE, json |-> EmptyMap]

\* A sharing-rules file, by what xml2js makes of it.
Xml(json) == [exists |-> TRUE, json |-> json]

\* `{sharingCriteriaRules: [], sharingOwnerRules: [], sharingTerritoryRules: []}`.
NoSharingRules ==
  [sharingCriteriaRules |-> <<>>, sharingOwnerRules |-> <<>>, sharingTerritoryRules |-> <<>>]

\* What xml2js (compact, alwaysArray: false) makes of an element that may
\* repeat: nothing when it does not occur, the object itself when it occurs
\* once, an array of the objects when it occurs more than once.
NoElement == [kind |-> "undefined", items |-> <<>>]
Single(item) == [kind |-> "object", items |-> <<item>>]
Several(items) == [kind |-> "array", items |-> items]

\* Array.isArray of such an element.
isArray(element) == element.kind = "array"

\* An element that holds text (`{_text: ...}`), and one that does not occur.
Leaf(text) == [defined |-> TRUE, text |-> text]
NoLeaf == [defined |-> FALSE, text |-> "undefined"]

\* `x ? x['_text'] : undefined`.
textOf(leaf) == IF leaf.defined THEN leaf.text ELSE "undefined"

\* A sharedTo / sharedFrom element: one member element named by the group
\* type, holding the group member as text. NoGroup: the element does not occur.
Group(groupType, groupMembers) ==
  [defined |-> TRUE, groupType |-> groupType, groupMembers |-> Leaf(groupMembers)]
NoGroup == [defined |-> FALSE, groupType |-> "undefined", groupMembers |-> NoLeaf]

\* The groups the rules of a file may name.
Territory == Group("territory", "T1")
Subordinates == Group("territoryAndSubordinates", "T2")
Role == Group("role", "R1")
PublicGroup == Group("group", "G1")

\* A criteriaItems element.
CriteriaItem(field, value) ==
  [field |-> Leaf(field), operation |-> Leaf("equals"), value |-> Leaf(value), valueField |-> NoLeaf]

\* A sharingCriteriaRules, sharingOwnerRules or sharingTerritoryRules element.
SharingRule(fullName, sharedTo, sharedFrom, criteriaItems) ==
  [fullName |-> Leaf(fullName), sharedTo |-> sharedTo, sharedFrom |-> sharedFrom,
   criteriaItems |-> criteriaItems]

\* Longest list of sharing rules of one kind in a file.
MaxSharingRules == 2

\* The criteria-based rules a file may hold: shared to a territory with two
\* criteria, to a territory and its subordinates with one criterion, to a
\* territory without criteria, to a role with one criterion, to a public
\* group without criteria.
CriteriaRules ==
  { SharingRule("c1", Territory, NoGroup,
                Several(<<CriteriaItem("Name", "a"), CriteriaItem("City", "b")>>)),
    SharingRule("c2", Subordinates, NoGroup, Single(CriteriaItem("Name", "a"))),
    SharingRule("c3", Territory, NoGroup, NoElement),
    SharingRule("c4", Role, NoGroup, Single(CriteriaItem("Name", "a"))),
    SharingRule("c5", PublicGroup, NoGroup, NoElement) }

\* The owner-based and territory-based rules a file may hold: shared to a
\* territory, shared from a territory and its subordinates, and between
\* roles and public groups only.
GroupRules ==
  { SharingRule("g1", Territory, Role, NoElement),
    SharingRule("g2", Role, Subordinates, NoElement),
    SharingRule("g3", Role, PublicGroup, NoElement),
    SharingRule("g4", PublicGroup, NoGroup, NoElement) }

\* The ways the rules of a set may occur in a file: not at all, once, or
\* from two to MaxSharingRules times.
ElementsOf(rules) ==
  {NoElement}
    \cup {Single(rule) : rule \in rules}
    \cup {Several(list) : list \in UNION {[1..n -> rules] : n \in 2..MaxSharingRules}}

\* A SharingRules element with the given rule elements.
SharingRulesJson(criteria, owner, territory) ==
  [sharingCriteriaRules |-> criteria, sharingOwnerRules |-> owner,
   sharingTerritoryRules |-> territory]

\* A SharingRules element without rules.
NoRuleElements == SharingRulesJson(NoElement, NoElement, NoElement)

\* A file whose root is a SharingRules element.
SharingRulesXml(sharingRules) == Xml([k \in {"SharingRules"} |-> sharingRules])

\* Contents a sharing-rules file may have: none, a document without a
\* SharingRules element, and a SharingRules element without rules.
SharingRulesFiles ==
  {NoXml, Xml([k \in {"Other"} |-> NoRuleElements]), SharingRulesXml(NoRuleElements)}

\* Files with rules: the rules of one kind occur in every way, those of
\* the other kinds not at all or once.
SharingRulesDocs ==
  {NoXml}
    \cup {SharingRulesXml(SharingRulesJson(criteria, NoElement, NoElement)) :
            criteria \in ElementsOf(CriteriaRules)}
    \cup {SharingRulesXml(SharingRulesJson(NoElement, owner, NoElement)) :
            owner \in ElementsOf(GroupRules)}
    \cup {SharingRulesXml(SharingRulesJson(NoElement, NoElement, territory)) :
            territory \in ElementsOf(GroupRules)}
    \cup {SharingRulesXml(SharingRulesJson(Several(<<c, c>>), Single(o), Single(t))) :
            c \in CriteriaRules, o \in GroupRules, t \in GroupRules}

\* No validation has been returned yet.
NoValidation == [status |-> "none"]

-----------------------------------------------------------------------------
(* Tm1Context: private helpers *)

\* Mutant: the loop returns false as soon as the first value differs, so
\* only the name stored first is compared.
matchAtaRuleDeveloperNameFirstOnly(devNames, devNameToMatch) ==
  /\ DOMAIN devNames # {}
  /\ devNames[CHOOSE first \in DOMAIN devNames : \A ruleId \in DOMAIN devNames : first <= ruleId]
       = devNameToMatch

\* matchAtaRuleDeveloperName: some value of the map is the name.
matchAtaRuleDeveloperName(devNames, devNameToMatch) ==
  \E ruleId \in DOMAIN devNames : devNames[ruleId] = devNameToMatch

RECURSIVE newDevName(_, _, _, _)
\* The `while (this.matchAtaRuleDeveloperName(newDevName))` loop of
\* addAtaRuleDeveloperName, entered with the current name and counter.
newDevName(devNames, baseDevName, current, counter) ==
  IF ~matchAtaRuleDeveloperName(devNames, current) THEN current
  ELSE LET counterString == toString(counter)
       IN newDevName(devNames, baseDevName,
                     substringTo(baseDevName, devNameMaxLength - Len(counterString))
                       \o counterString,
                     counter + 1)

\* Mutant: the counter starts at 1.
addAtaRuleDeveloperNameFromOne(devNames, ataRuleRecord) ==
  LET baseDevName == createDeveloperName(ataRuleRecord.Name)
  IN MapSet(devNames, ataRuleRecord.Id, newDevName(devNames, baseDevName, baseDevName, 1))

\* addAtaRuleDeveloperName: the map with the rule's Developer Name set.
addAtaRuleDeveloperName(devNames, ataRuleRecord) ==
  LET baseDevName == createDeveloperName(ataRuleRecord.Name)
  IN MapSet(devNames, ataRuleRecord.Id, newDevName(devNames, baseDevName, baseDevName, 2))

RECURSIVE transformCsvFiles(_, _, _)
\* The `for (const ataRuleRecord of this._ataRuleRecords)` loop of
\* transformCsvFiles from record i on, as far as it names the rules.
transformCsvFiles(devNames, records, i) ==
  IF i > Len(records) THEN devNames
  ELSE transformCsvFiles(addAtaRuleDeveloperName(devNames, records[i]), records, i + 1)

\* Most turns of the naming loop that are followed for one rule.
MaxTurns == 2 * MaxSameName

RECURSIVE loopEnds(_, _, _, _, _)
\* Whether the `while (this.matchAtaRuleDeveloperName(newDevName))` loop,
\* entered with the current name and counter, is left within the given
\* number of turns.
loopEnds(devNames, baseDevName, current, counter, turns) ==
  IF ~matchAtaRuleDeveloperName(devNames, current) THEN TRUE
  ELSE IF turns = 0 THEN FALSE
  ELSE LET counterString == toString(counter)
       IN loopEnds(devNames, baseDevName,
                   substringTo(baseDevName, devNameMaxLength - Len(counterString))
                     \o counterString,
                   counter + 1, turns - 1)

RECURSIVE namingEnds(_, _, _)
\* Whether the loop of transformCsvFiles from record i on comes to its end:
\* the naming loop of every rule is left, each within MaxTurns turns.
namingEnds(devNames, records, i) ==
  IF i > Len(records) THEN TRUE
  ELSE LET baseDevName == createDeveloperName(records[i].Name)
       IN /\ loopEnds(devNames, baseDevName, baseDevName, 2, MaxTurns)
          /\ namingEnds(addAtaRuleDeveloperName(devNames, records[i]), records, i + 1)

\* Tm1Context.parseCsvFiles: the five extracts parsed in the order of the
\* code; the first that cannot be parsed rejects the call.
parseCsvFiles ==
  LET accountShare == parseFile(accountShareCsv)
      ataRule == parseFile(ataRuleCsv)
      ataRuleItem == parseFile(ataRuleItemCsv)
      territory == parseFile(territoryCsv)
      userTerritory == parseFile(userTerritoryCsv)
  IN IF accountShare.error # NoTm2Error THEN Thrown(accountShare.error)
     ELSE IF ataRule.error # NoTm2Error THEN Thrown(ataRule.error)
     ELSE IF ataRuleItem.error # NoTm2Error THEN Thrown(ataRuleItem.error)
     ELSE IF territory.error # NoTm2Error THEN Thrown(territory.error)
     ELSE IF userTerritory.error # NoTm2Error THEN Thrown(userTerritory.error)
     ELSE Value([accountShareRecords |-> accountShare.value,
                 ataRuleRecords |-> ataRule.value,
                 ataRuleItemRecords |-> ataRuleItem.value,
                 territoryRecords |-> territory.value,
                 userTerritoryRecords |-> userTerritory.value])

RECURSIVE TerritoryRecordsById(_, _, _)
\* The `for (const territoryRecord of this._territoryRecords)` loop of
\* transformCsvFiles from record i on.
TerritoryRecordsById(map, records, i) ==
  IF i > Len(records) THEN map
  ELSE TerritoryRecordsById(MapSet(map, records[i].Id, records[i]), records, i + 1)

RECURSIVE AtaRuleRecordsById(_, _, _)
\* `this._ataRuleRecordsById.set(ataRuleRecord.Id, ataRuleRecord)` for the
\* rules from record i on.
AtaRuleRecordsById(map, records, i) ==
  IF i > Len(records) THEN map
  ELSE AtaRuleRecordsById(MapSet(map, records[i].Id, records[i]), records, i + 1)

\* Mutant: the array of a territory is created anew for every rule.
addAtaRuleToTerritoryGroupAnew(map, ataRuleRecord) ==
  MapSet(map, ataRuleRecord.TerritoryId, <<ataRuleRecord>>)

\* addAtaRuleToTerritoryGroup: the rule is pushed onto the array of its
\* territory, which is created when the map does not hold one yet.
addAtaRuleToTerritoryGroup(map, ataRuleRecord) ==
  LET found == IF ataRuleRecord.TerritoryId \in DOMAIN map
                 THEN map[ataRuleRecord.TerritoryId]
                 ELSE <<>>
  IN MapSet(map, ataRuleRecord.TerritoryId, Append(found, ataRuleRecord))

RECURSIVE AtaRuleRecordsByTerritoryId(_, _, _)
\* `this.addAtaRuleToTerritoryGroup(ataRuleRecord)` for the rules from
\* record i on.
AtaRuleRecordsByTerritoryId(map, records, i) ==
  IF i > Len(records) THEN map
  ELSE AtaRuleRecordsByTerritoryId(addAtaRuleToTerritoryGroup(map, records[i]), records, i + 1)

\* The inner loop of transformCsvFiles: the items whose RuleId is the
\* rule's Id, in the order of the extract.
relatedAtaRuleItemRecords(items, ataRuleRecord) ==
  LET related(item) == item.RuleId = ataRuleRecord.Id
  IN SelectSeq(items, related)

RECURSIVE AtaRuleItemRecordsByRuleId(_, _, _, _)
\* `this._ataRuleItemRecordsByRuleId.set(ataRuleRecord.Id, ataRuleItemRecords)`
\* for the rules from record i on.
AtaRuleItemRecordsByRuleId(map, records, items, i) ==
  IF i > Len(records) THEN map
  ELSE AtaRuleItemRecordsByRuleId(
         MapSet(map, records[i].Id, relatedAtaRuleItemRecords(items, records[i])),
         records, items, i + 1)

\* isTerritoryRelated: the rule's sharedTo or its sharedFrom element has a
\* territory or a territoryAndSubordinates member.
isTerritoryRelated(sharingRuleToTest) ==
  \/ /\ sharingRuleToTest.sharedTo.defined
     /\ sharingRuleToTest.sharedTo.groupType \in {"territory", "territoryAndSubordinates"}
  \/ /\ sharingRuleToTest.sharedFrom.defined
     /\ sharingRuleToTest.sharedFrom.groupType \in {"territory", "territoryAndSubordinates"}

\* extractSharedToGroup / extractSharedFromGroup on the rule's element: the
\* SharingGroup of its first member, or undefined when there is no element.
extractSharedGroup(group) ==
  IF group.defined
    THEN [groupType |-> group.groupType, groupMembers |-> textOf(group.groupMembers)]
    ELSE [groupType |-> "undefined", groupMembers |-> "undefined"]

\* The FilterItem pushed for one criteriaItems element.
FilterItem(criteriaItemJson) ==
  [field |-> textOf(criteriaItemJson.field),
   operation |-> textOf(criteriaItemJson.operation),
   value |-> textOf(criteriaItemJson.value),
   valueField |-> textOf(criteriaItemJson.valueField)]

\* The criteria items of a retained criteria-based rule: what is not an
\* array is wrapped into one, so an element that does not occur becomes
\* `[undefined]`, and reading `undefined['field']` in the loop throws a
\* TypeError.
criteriaItemsOf(sharingCriteriaRule) ==
  LET criteriaItemsJson == sharingCriteriaRule.criteriaItems
  IN IF ~isArray(criteriaItemsJson) /\ criteriaItemsJson.kind = "undefined"
       THEN Thrown("TypeError")
       ELSE Value([i \in 1..Len(criteriaItemsJson.items) |->
                     FilterItem(criteriaItemsJson.items[i])])

RECURSIVE parseSharingCriteriaRules(_, _)
\* The loop over the criteria-based rules from rule i on: a rule that is
\* territory related is pushed with its criteria items.
parseSharingCriteriaRules(sharingCriteriaRules, i) ==
  IF i > Len(sharingCriteriaRules) THEN Value(<<>>)
  ELSE LET rule == sharingCriteriaRules[i]
           criteriaItems == criteriaItemsOf(rule)
           rest == parseSharingCriteriaRules(sharingCriteriaRules, i + 1)
       IN IF ~isTerritoryRelated(rule) THEN rest
          ELSE IF criteriaItems.error # NoTm2Error THEN Thrown(criteriaItems.error)
          ELSE IF rest.error # NoTm2Error THEN rest
          ELSE Value(<<[fullName |-> textOf(rule.fullName),
                        sharedTo |-> extractSharedGroup(rule.sharedTo),
                        criteriaItems |-> criteriaItems.value]>> \o rest.value)

\* The owner-based or territory-based rule pushed for a retained rule.
SharingGroupRule(rule) ==
  [fullName |-> textOf(rule.fullName),
   sharedFrom |-> extractSharedGroup(rule.sharedFrom),
   sharedTo |-> extractSharedGroup(rule.sharedTo)]

\* The loops over the owner-based and the territory-based rules: the rules
\* that are territory related, in the order of the file.
parseSharingGroupRules(sharingGroupRules) ==
  LET retained == SelectSeq(sharingGroupRules, isTerritoryRelated)
  IN [i \in 1..Len(retained) |-> SharingGroupRule(retained[i])]

\* The criteria-based rules as the loop receives them: an element that is
\* not an array is assigned to itself, not wrapped, so a rule that occurs
\* once reaches `for ... of` as an object, which is not iterable.
criteriaRulesOf(sharingRules) ==
  LET sharingCriteriaRules == sharingRules.sharingCriteriaRules
  IN IF sharingCriteriaRules.kind = "undefined" THEN Value(<<>>)
     ELSE IF ~isArray(sharingCriteriaRules) THEN Thrown("TypeError")
     ELSE parseSharingCriteriaRules(sharingCriteriaRules.items, 1)

\* The owner-based or territory-based rules as the loop receives them: an
\* element that is not an array is wrapped into one.
groupRulesOf(sharingGroupRules) ==
  IF sharingGroupRules.kind = "undefined" THEN <<>>
  ELSE parseSharingGroupRules(sharingGroupRules.items)

\* parseSharingRulesFromXml: without a SharingRules element it throws;
\* else the rules of the three kinds that are territory related.
parseSharingRulesFromXml(json) ==
  IF "SharingRules" \notin DOMAIN json
    THEN Thrown("Xml2JsonParsingError")
    ELSE LET sharingRules == json["SharingRules"]
             criteria == criteriaRulesOf(sharingRules)
         IN IF criteria.error # NoTm2Error THEN Thrown(criteria.error)
            ELSE Value([sharingCriteriaRules |-> criteria.value,
                        sharingOwnerRules |-> groupRulesOf(sharingRules.sharingOwnerRules),
                        sharingTerritoryRules |->
                          groupRulesOf(sharingRules.sharingTerritoryRules)])

\* Mutant: a file that cannot be read rejects the call.
sharingRulesOfRequired(file) ==
  IF file.exists THEN parseSharingRulesFromXml(file.json) ELSE Thrown("FileReadError")

\* One file of parseXmlFiles: the read error is caught and gives undefined,
\* for which the rules stay as the constructor set them; a file that is
\* read is parsed.
sharingRulesOf(file) ==
  IF file.exists THEN parseSharingRulesFromXml(file.json) ELSE Value(NoSharingRules)

\* Tm1Context.parseXmlFiles: the three files are read, then parsed,
\* Account first, then Lead, then Opportunity.
parseXmlFiles ==
  LET account == sharingRulesOf(accountSharingRulesXml)
      lead == sharingRulesOf(leadSharingRulesXml)
      opportunity == sharingRulesOf(opportunitySharingRulesXml)
  IN IF account.error # NoTm2Error THEN Thrown(account.error)
     ELSE IF lead.error # NoTm2Error THEN Thrown(lead.error)
     ELSE IF opportunity.error # NoTm2Error THEN Thrown(opportunity.error)
     ELSE Value([accountSharingRules |-> account.value,
                 leadSharingRules |-> lead.value,
                 opportunitySharingRules |-> opportunity.value])

-----------------------------------------------------------------------------
(* Tm1Context: constructor and public methods *)

\* Mutant: the map of Developer Names is created once for all contexts, so
\* a context starts with the names another context has assigned.
DevNamesShared(self) ==
  IF \E other \in Contexts : tm1Prepared[other]
    THEN ataRuleDevNamesByRuleId[CHOOSE other \in Contexts : tm1Prepared[other]]
    ELSE EmptyMap

\* `this._ataRuleDevNamesByRuleId = new Map<string, string>()`: every
\* context is constructed with a map of its own.
DevNamesAtConstruction(self) == EmptyMap

\* The members of the contexts before any of them is prepared, and no call
\* made yet.
tm1Constructed ==
  /\ accountShareRecords = [c \in Contexts |-> <<>>]
  /\ ataRuleRecords = [c \in Contexts |-> <<>>]
  /\ ataRuleItemRecords = [c \in Contexts |-> <<>>]
  /\ territoryRecords = [c \in Contexts |-> <<>>]
  /\ userTerritoryRecords = [c \in Contexts |-> <<>>]
  /\ territoryRecordsById = [c \in Contexts |-> EmptyMap]
  /\ ataRuleRecordsById = [c \in Contexts |-> EmptyMap]
  /\ ataRuleRecordsByTerritoryId = [c \in Contexts |-> EmptyMap]
  /\ ataRuleItemRecordsByRuleId = [c \in Contexts |-> EmptyMap]
  /\ ataRuleDevNamesByRuleId = [c \in Contexts |-> EmptyMap]
  /\ accountSharingRules = [c \in Contexts |-> NoSharingRules]
  /\ leadSharingRules = [c \in Contexts |-> NoSharingRules]
  /\ opportunitySharingRules = [c \in Contexts |-> NoSharingRules]
  /\ tm1Prepared = [c \in Contexts |-> FALSE]
  /\ tm1ContextValidation = NoValidation
  /\ tm1Last = NoTm2Call

\* The call of transformCsvFiles in prepare returns: the extracts were
\* parsed and no naming loop runs on for ever. A call that does not return
\* leaves no step to observe.
transformCsvFilesReturns(self) ==
  LET csv == parseCsvFiles
  IN csv.error = NoTm2Error =>
       namingEnds(DevNamesAtConstruction(self), csv.value.ataRuleRecords, 1)

\* Tm1Context.prepare for the context `self`: construct, parseCsvFiles,
\* transformCsvFiles, parseXmlFiles, then _prepared. When a step throws no
\* context is returned.
prepareTm1Context(self) ==
  /\ ~tm1Prepared[self]
  /\ transformCsvFilesReturns(self)
  /\ LET csv == parseCsvFiles
         xml == parseXmlFiles
     IN IF csv.error # NoTm2Error
          THEN /\ tm1Last' = Threw("prepare", csv.error)
               /\ UNCHANGED tm1Members
          ELSE IF xml.error # NoTm2Error
            THEN /\ tm1Last' = Threw("prepare", xml.error)
                 /\ UNCHANGED tm1Members
            ELSE LET rules == csv.value.ataRuleRecords
                     items == csv.value.ataRuleItemRecords
                 IN /\ accountShareRecords' =
                         [accountShareRecords EXCEPT ![self] = csv.value.accountShareRecords]
                    /\ ataRuleRecords' = [ataRuleRecords EXCEPT ![self] = rules]
                    /\ ataRuleItemRecords' = [ataRuleItemRecords EXCEPT ![self] = items]
                    /\ territoryRecords' =
                         [territoryRecords EXCEPT ![self] = csv.value.territoryRecords]
                    /\ userTerritoryRecords' =
                         [userTerritoryRecords EXCEPT ![self] = csv.value.userTerritoryRecords]
                    /\ territoryRecordsById' =
                         [territoryRecordsById EXCEPT ![self] =
                            TerritoryRecordsById(EmptyMap, csv.value.territoryRecords, 1)]
                    /\ ataRuleRecordsById' =
                         [ataRuleRecordsById EXCEPT ![self] =
                            AtaRuleRecordsById(EmptyMap, rules, 1)]
                    /\ ataRuleRecordsByTerritoryId' =
                         [ataRuleRecordsByTerritoryId EXCEPT ![self] =
                            AtaRuleRecordsByTerritoryId(EmptyMap, rules, 1)]
                    /\ ataRuleItemRecordsByRuleId' =
                         [ataRuleItemRecordsByRuleId EXCEPT ![self] =
                            AtaRuleItemRecordsByRuleId(EmptyMap, rules, items, 1)]
                    /\ ataRuleDevNamesByRuleId' =
                         [ataRuleDevNamesByRuleId EXCEPT ![self] =
                            transformCsvFiles(DevNamesAtConstruction(self), rules, 1)]
                    /\ accountSharingRules' =
                         [accountSharingRules EXCEPT ![self] = xml.value.accountSharingRules]
                    /\ leadSharingRules' =
                         [leadSharingRules EXCEPT ![self] = xml.value.leadSharingRules]
                    /\ opportunitySharingRules' =
                         [opportunitySharingRules EXCEPT ![self] =
                            xml.value.opportunitySharingRules]
                    /\ tm1Prepared' = [tm1Prepared EXCEPT ![self] = TRUE]
                    /\ tm1Last' = Returned("prepare")
  /\ UNCHANGED <<tm1CsvFiles, tm1XmlFiles, tm1ContextValidation>>

\* Mutant: the AtaRuleItem flag compares the expected number of items with
\* the number of rules.
extractionStatusItemsByRules(counts, records) ==
  [territoryExtractionIsValid |-> counts.territoryRecordCount = Len(records.territoryRecords),
   ataRuleExtractionIsValid |-> counts.ataRuleRecordCount = Len(records.ataRuleRecords),
   ataRuleItemExtractionIsValid |-> counts.ataRuleItemRecordCount = Len(records.ataRuleRecords),
   userTerritoryExtractionIsValid |->
     counts.userTerritoryRecordCount = Len(records.userTerritoryRecords),
   accountShareExtractionIsValid |->
     counts.accountShareRecordCount = Len(records.accountShareRecords)]

\* The `status` member of the validation: one comparison per kind of record.
extractionStatus(counts, records) ==
  [territoryExtractionIsValid |-> counts.territoryRecordCount = Len(records.territoryRecords),
   ataRuleExtractionIsValid |-> counts.ataRuleRecordCount = Len(records.ataRuleRecords),
   ataRuleItemExtractionIsValid |->
     counts.ataRuleItemRecordCount = Len(records.ataRuleItemRecords),
   userTerritoryExtractionIsValid |->
     counts.userTerritoryRecordCount = Len(records.userTerritoryRecords),
   accountShareExtractionIsValid |->
     counts.accountShareRecordCount = Len(records.accountShareRecords)]

\* The `actualRecordCounts` member of the validation.
actualRecordCounts(records) ==
  [territoryRecordCount |-> Len(records.territoryRecords),
   ataRuleRecordCount |-> Len(records.ataRuleRecords),
   ataRuleItemRecordCount |-> Len(records.ataRuleItemRecords),
   userTerritoryRecordCount |-> Len(records.userTerritoryRecords),
   accountShareRecordCount |-> Len(records.accountShareRecords),
   sharingCriteriaRuleCount |-> -1,
   sharingOwnerRuleCount |-> -1,
   sharingTerritoryRuleCount |-> -1]

\* Mutant: validate() counts the records of a context prepared earlier
\* when there is one.
recordsOfPreparedContext(parsed) ==
  IF \E c \in Contexts : tm1Prepared[c]
    THEN LET c == CHOOSE c \in Contexts : tm1Prepared[c]
         IN [accountShareRecords |-> accountShareRecords[c],
             ataRuleRecords |-> ataRuleRecords[c],
             ataRuleItemRecords |-> ataRuleItemRecords[c],
             territoryRecords |-> territoryRecords[c],
             userTerritoryRecords |-> userTerritoryRecords[c]]
    ELSE parsed

\* `const tm1Context = new Tm1Context(tm1MetadataDir, tm1DataDir)`: the
\* records validate() counts are those its own context has just parsed.
recordsOfNewContext(parsed) == parsed

\* Tm1Context.validate: a context of its own is constructed and parsed
\* (not transformed), and the counts are compared with the report's.
validate(tm1RecordCounts) ==
  /\ LET csv == [parseCsvFiles EXCEPT !.value = recordsOfNewContext(@)]
         xml == parseXmlFiles
     IN IF csv.error # NoTm2Error
          THEN /\ tm1Last' = Threw("validate", csv.error)
               /\ UNCHANGED tm1ContextValidation
          ELSE IF xml.error # NoTm2Error
            THEN /\ tm1Last' = Threw("validate", xml.error)
                 /\ UNCHANGED tm1ContextValidation
            ELSE /\ tm1ContextValidation' =
                      [records |-> csv.value,
                       expectedRecordCounts |-> tm1RecordCounts,
                       actualRecordCounts |-> actualRecordCounts(csv.value),
                       status |-> extractionStatus(tm1RecordCounts, csv.value)]
                 /\ tm1Last' = Returned("validate")
  /\ UNCHANGED <<tm1CsvFiles, tm1XmlFiles, tm1Members>>

\* The public accessors of Tm1Context that hand out records, maps and
\* sharing rules.
Tm1Accessors ==
  { "accountShareRecords", "accountSharingRules", "ataRuleRecords", "ataRuleRecordsById",
    "ataRuleRecordsByTerritoryId", "ataRuleItemRecords", "ataRuleItemRecordsByRuleId",
    "ataRuleDevNamesByRuleId", "leadSharingRules", "opportunitySharingRules",
    "territoryRecords", "territoryRecordsById", "userTerritoryRecords" }

\* The private member of the context behind an accessor.
tm1Member(self, accessor) ==
  CASE accessor = "accountShareRecords" -> accountShareRecords[self]
    [] accessor = "accountSharingRules" -> accountSharingRules[self]
    [] accessor = "ataRuleRecords" -> ataRuleRecords[self]
    [] accessor = "ataRuleRecordsById" -> ataRuleRecordsById[self]
    [] accessor = "ataRuleRecordsByTerritoryId" -> ataRuleRecordsByTerritoryId[self]
    [] accessor = "ataRuleItemRecords" -> ataRuleItemRecords[self]
    [] accessor = "ataRuleItemRecordsByRuleId" -> ataRuleItemRecordsByRuleId[self]
    [] accessor = "ataRuleDevNamesByRuleId" -> ataRuleDevNamesByRuleId[self]
    [] accessor = "leadSharingRules" -> leadSharingRules[self]
    [] accessor = "opportunitySharingRules" -> opportunitySharingRules[self]
    [] accessor = "territoryRecords" -> territoryRecords[self]
    [] accessor = "territoryRecordsById" -> territoryRecordsById[self]
    [] accessor = "userTerritoryRecords" -> userTerritoryRecords[self]

\* contextIsPrepared: throws ContextNotPrepared unless _prepared is true.
contextIsPrepared(self) ==
  IF tm1Prepared[self] # TRUE THEN Thrown("ContextNotPrepared") ELSE Value(tm1Prepared[self])

\* `get x() { return this.contextIsPrepared() ? this._x : undefined; }`
getTm1(self, accessor) ==
  /\ got' = IF contextIsPrepared(self).error # NoTm2Error
              THEN GotError(self, accessor, contextIsPrepared(self).error)
              ELSE IF contextIsPrepared(self).value
                THEN Got(self, accessor, tm1Member(self, accessor))
                ELSE Got(self, accessor, Nothing)
  /\ UNCHANGED <<modelVars, tm2Vars, tm1Vars>>

\* `get tm1FilePaths() { return this._tm1FilePaths; }`: the paths are handed
\* out without a check.
getTm1FilePaths(self) ==
  /\ got' = Got(self, "tm1FilePaths", "paths")
  /\ UNCHANGED <<modelVars, tm2Vars, tm1Vars>>

\* A later extraction rewrites AccountTerritoryAssignmentRule.csv.
writeAtaRuleCsv(extract) ==
  /\ ataRuleCsv # extract
  /\ ataRuleCsv' = extract
  /\ UNCHANGED <<accountShareCsv, ataRuleItemCsv, territoryCsv, userTerritoryCsv,
                 tm1XmlFiles, tm1Members, tm1ContextValidation, tm1Last>>

-----------------------------------------------------------------------------
(* Specifications *)

\* Calls `insts` may receive with arguments `args`, and the hooks settling.
modelNext(insts, args) ==
  \/ \E self \in insts, arg \in args : build(self, arg)
  \/ \E outcome \in HookOutcomes : buildSettled(outcome)
  \/ \E self \in insts, arg \in args : load(self, arg)
  \/ \E outcome \in HookOutcomes : loadSettled(outcome)
  \/ \E self \in insts : refresh(self)
  \/ \E outcome \in HookOutcomes : refreshBuildSettled(outcome)
  \/ \E outcome \in HookOutcomes : refreshLoadSettled(outcome)

\* The lifecycle specifications leave the destination context unprepared
\* with no files on disk.
tm2Idle ==
  /\ tm2Init
  /\ tm1ToTm2DevnameMapCsv = Absent
  /\ territory2Csv = Absent
  /\ userTerritory2AssociationIntermediateCsv = File(<<>>)

\* The destination-context specification leaves the model instances as
\* constructed with the default options.
\* The fields of ModelState.
StateFlags == {"built", "loaded", "failed", "ready", "stale"}

\* `get ready() { return this._state.ready; }` and the four getters like
\* it: the caller is handed the value of the flag.
getFlag(self, flag) ==
  /\ got' = Got(self, flag, state[self][flag])
  /\ UNCHANGED <<modelVars, tm2Vars, tm1Vars>>

\* build(), load() and refresh() end in `return this._state`: the caller
\* is handed the object the instance keeps its flags in, and assigns to a
\* field of the object the most recently completed call returned.
writeReturnedState(flag, value) ==
  /\ last.result = "returned"
  /\ state' = [state EXCEPT ![last.self][flag] = value]
  /\ UNCHANGED <<trapErrors, errors, buildOpts, loadOpts, readyBy, pending, last>>
  /\ UNCHANGED <<tm2Vars, tm1Vars, got>>

modelIdle ==
  /\ modelInit
  /\ trapErrors = [i \in Instances |-> FALSE]

\* The other specifications leave the source contexts unprepared with no
\* files on disk.
tm1Idle ==
  /\ tm1Constructed
  /\ accountShareCsv = Absent
  /\ ataRuleCsv = Absent
  /\ ataRuleItemCsv = Absent
  /\ territoryCsv = Absent
  /\ userTerritoryCsv = Absent
  /\ accountSharingRulesXml = NoXml
  /\ leadSharingRulesXml = NoXml
  /\ opportunitySharingRulesXml = NoXml

Init == modelInit /\ tm2Idle /\ tm1Idle /\ got = NoRead

\* One instance driven with every kind of argument.
Next == modelNext({"m1"}, OptsArgs) /\ UNCHANGED <<tm2Vars, tm1Vars, got>>

Spec == Init /\ [][Next]_vars

\* Two instances side by side, each called without options.
NextPair == modelNext(Instances, {"undefined"}) /\ UNCHANGED <<tm2Vars, tm1Vars, got>>

SpecPair == Init /\ [][NextPair]_vars

InitTm2 == modelIdle /\ tm2Init /\ tm1Idle /\ got = NoRead

NextTm2 == tm2Next /\ UNCHANGED <<modelVars, tm1Vars, got>>

\* A destination context from its construction on, with the files changing
\* under it.
SpecTm2 == InitTm2 /\ [][NextTm2]_vars

\* The rule extract is one of AtaRuleFiles, the other extracts are there
\* and hold no record, and the Account sharing rules are one of
\* SharingRulesFiles.
InitTm1 ==
  /\ modelIdle
  /\ tm2Idle
  /\ tm1Constructed
  /\ got = NoRead
  /\ ataRuleCsv \in AtaRuleFiles
  /\ accountShareCsv = ExtractOf(0)
  /\ ataRuleItemCsv = ExtractOf(0)
  /\ territoryCsv = ExtractOf(0)
  /\ userTerritoryCsv = ExtractOf(0)
  /\ accountSharingRulesXml \in SharingRulesFiles
  /\ leadSharingRulesXml = NoXml
  /\ opportunitySharingRulesXml = NoXml

NextTm1 ==
  /\ \E self \in Contexts : prepareTm1Context(self)
  /\ UNCHANGED <<modelVars, tm2Vars, got>>

\* Source contexts prepared, in any order, from the same extracts.
SpecTm1 == InitTm1 /\ [][NextTm1]_vars

\* Extracts of up to MaxRecords records each, Territory.csv possibly
\* missing, and the Account sharing rules one of SharingRulesFiles.
InitValidate ==
  /\ modelIdle
  /\ tm2Idle
  /\ tm1Constructed
  /\ got = NoRead
  /\ ataRuleCsv \in {AtaRuleExtractOf(n) : n \in 0..MaxRecords}
  /\ accountShareCsv \in {ExtractOf(n) : n \in 0..MaxRecords}
  /\ ataRuleItemCsv \in {ExtractOf(n) : n \in 0..MaxRecords}
  /\ territoryCsv \in {Absent} \cup {ExtractOf(n) : n \in 0..MaxRecords}
  /\ userTerritoryCsv \in {ExtractOf(n) : n \in 0..MaxRecords}
  /\ accountSharingRulesXml \in SharingRulesFiles
  /\ leadSharingRulesXml = NoXml
  /\ opportunitySharingRulesXml = NoXml

NextValidate ==
  /\ \E tm1RecordCounts \in AnalysisReports : validate(tm1RecordCounts)
  /\ UNCHANGED <<modelVars, tm2Vars, got>>

\* Extracts validated against analysis reports.
SpecValidate == InitValidate /\ [][NextValidate]_vars

\* The rule extracts of up to MaxRecords rules.
AtaRuleExtracts == {AtaRuleExtractOf(n) : n \in 0..MaxRecords}

\* Account sharing rules a validated extract may come with: no file, one
\* owner-based rule shared to a territory, two criteria-based rules of
\* which one is shared to a territory.
ValidatedSharingRules ==
  { NoXml,
    SharingRulesXml(SharingRulesJson(NoElement,
                                     Single(SharingRule("g1", Territory, Role, NoElement)),
                                     NoElement)),
    SharingRulesXml(SharingRulesJson(
      Several(<<SharingRule("c2", Subordinates, NoGroup, Single(CriteriaItem("Name", "a"))),
                SharingRule("c4", Role, NoGroup, Single(CriteriaItem("Name", "a")))>>),
      NoElement, NoElement)) }

\* A rule extract of up to MaxRecords rules, the other extracts without
\* records, and Account sharing rules of ValidatedSharingRules.
InitRevalidate ==
  /\ modelIdle
  /\ tm2Idle
  /\ tm1Constructed
  /\ got = NoRead
  /\ ataRuleCsv \in AtaRuleExtracts
  /\ accountShareCsv = ExtractOf(0)
  /\ ataRuleItemCsv = ExtractOf(0)
  /\ territoryCsv = ExtractOf(0)
  /\ userTerritoryCsv = ExtractOf(0)
  /\ accountSharingRulesXml \in ValidatedSharingRules
  /\ leadSharingRulesXml = NoXml
  /\ opportunitySharingRulesXml = NoXml

NextRevalidate ==
  /\ \/ \E self \in Contexts : prepareTm1Context(self)
     \/ \E extract \in AtaRuleExtracts : writeAtaRuleCsv(extract)
     \/ \E tm1RecordCounts \in AnalysisReports : validate(tm1RecordCounts)
  /\ UNCHANGED <<modelVars, tm2Vars, got>>

\* Contexts prepared and extracts validated while the rule extract is
\* rewritten between the calls.
SpecRevalidate == InitRevalidate /\ [][NextRevalidate]_vars

\* A destination context with its mapping table and any Territory2
\* extract, and source contexts over an extract of one rule.
InitAccess ==
  /\ modelIdle
  /\ tm2Init
  /\ userTerritory2AssociationIntermediateCsv = File(<<>>)
  /\ tm1Constructed
  /\ got = NoRead
  /\ ataRuleCsv = AtaRuleExtractOf(1)
  /\ accountShareCsv = ExtractOf(1)
  /\ ataRuleItemCsv = ExtractOf(0)
  /\ territoryCsv = ExtractOf(1)
  /\ userTerritoryCsv = ExtractOf(0)
  /\ accountSharingRulesXml \in ValidatedSharingRules
  /\ leadSharingRulesXml = NoXml
  /\ opportunitySharingRulesXml = NoXml

NextAccess ==
  \/ prepare /\ UNCHANGED <<modelVars, tm1Vars, got>>
  \/ \E accessor \in Tm2Accessors : getTm2(accessor)
  \/ (\E self \in Contexts : prepareTm1Context(self)) /\ UNCHANGED <<modelVars, tm2Vars, got>>
  \/ \E self \in Contexts, accessor \in Tm1Accessors : getTm1(self, accessor)
  \/ \E self \in Contexts : getTm1FilePaths(self)

\* The accessors of the contexts read before and after prepare().
SpecAccess == InitAccess /\ [][NextAccess]_vars


\* Every file of the extraction present, Account.sharingRules one of
\* SharingRulesDocs.
InitXml ==
  /\ modelIdle
  /\ tm2Idle
  /\ tm1Constructed
  /\ got = NoRead
  /\ ataRuleCsv = AtaRuleExtractOf(0)
  /\ accountShareCsv = ExtractOf(0)
  /\ ataRuleItemCsv = ExtractOf(0)
  /\ territoryCsv = ExtractOf(0)
  /\ userTerritoryCsv = ExtractOf(0)
  /\ accountSharingRulesXml \in SharingRulesDocs
  /\ leadSharingRulesXml = NoXml
  /\ opportunitySharingRulesXml = NoXml

\* prepare() over the sharing rules documents.
SpecXml == InitXml /\ [][NextTm1]_vars

\* A sharing rules file, absent or holding one owner-based rule shared to a
\* territory.
OptionalSharingRules ==
  { NoXml,
    SharingRulesXml(SharingRulesJson(NoElement,
                                     Single(SharingRule("g1", Territory, Role, NoElement)),
                                     NoElement)) }

\* Each of the five extracts and each of the three sharing rules files
\* present or absent.
InitPrepare ==
  /\ modelIdle
  /\ tm2Idle
  /\ tm1Constructed
  /\ got = NoRead
  /\ ataRuleCsv \in {Absent, AtaRuleExtractOf(1)}
  /\ accountShareCsv \in {Absent, ExtractOf(1)}
  /\ ataRuleItemCsv \in {Absent, ExtractOf(0)}
  /\ territoryCsv \in {Absent, ExtractOf(1)}
  /\ userTerritoryCsv \in {Absent, ExtractOf(0)}
  /\ accountSharingRulesXml \in OptionalSharingRules
  /\ leadSharingRulesXml \in OptionalSharingRules
  /\ opportunitySharingRulesXml \in OptionalSharingRules

\* prepare() over extractions with files missing.
SpecPrepare == InitPrepare /\ [][NextTm1]_vars

\* A record of AccountTerritoryAssignmentRuleItem.csv.
AtaRuleItemRecord(id, ruleId) == [Id |-> id, RuleId |-> ruleId]

\* The most rule items of an extract.
MaxItems == 2

\* The rule extracts of up to MaxRules rules, each of territory TerrA or
\* TerrB.
TerritoryRuleFiles ==
  { File([i \in 1..n |-> AtaRuleRecord(i, West, territoryIds[i])]) :
      n \in 0..MaxRules, territoryIds \in [1..MaxRules -> {TerrA, TerrB}] }

\* The rule item extracts of up to MaxItems items, each of one of the
\* rules 1..MaxRules.
RuleItemFiles ==
  { File([i \in 1..n |-> AtaRuleItemRecord(i, ruleIds[i])]) :
      n \in 0..MaxItems, ruleIds \in [1..MaxItems -> 1..MaxRules] }

\* Rules of two territories and their items.
InitIndex ==
  /\ modelIdle
  /\ tm2Idle
  /\ tm1Constructed
  /\ got = NoRead
  /\ ataRuleCsv \in TerritoryRuleFiles
  /\ accountShareCsv = ExtractOf(0)
  /\ ataRuleItemCsv \in RuleItemFiles
  /\ territoryCsv = ExtractOf(1)
  /\ userTerritoryCsv = ExtractOf(0)
  /\ accountSharingRulesXml = NoXml
  /\ leadSharingRulesXml = NoXml
  /\ opportunitySharingRulesXml = NoXml

\* prepare() over rules of several territories.
SpecIndex == InitIndex /\ [][NextTm1]_vars

NextAlias ==
  \/ modelNext({"m1"}, {"undefined"}) /\ UNCHANGED <<tm2Vars, tm1Vars, got>>
  \/ \E self \in {"m1"}, flag \in StateFlags : getFlag(self, flag)
  \/ \E flag \in StateFlags, value \in BOOLEAN : writeReturnedState(flag, value)

\* A model and a caller that uses what the calls and the getters return.
SpecAlias == Init /\ [][NextAlias]_vars

\* The most calls awaited at once.
MaxPending == 2

\* A call may be made while fewer than MaxPending calls are awaited, and no
\* further call is taken once MaxErrors errors have been recorded.
MayOverlap == Len(pending) < MaxPending /\ Recorded(Instances) < MaxErrors

\* Calls on one instance made before the hooks of earlier calls have
\* settled; the hooks settle in any order.
NextOverlap ==
  /\ \/ \E self \in {"m1"}, arg \in {"undefined", "invalid"} :
          MayOverlap /\ buildEntered(self, arg)
     \/ \E self \in {"m1"}, arg \in {"undefined", "invalid"} :
          MayOverlap /\ loadEntered(self, arg)
     \/ \E self \in {"m1"} : MayOverlap /\ refreshEntered(self)
     \/ \E k \in 1..MaxPending, outcome \in HookOutcomes : buildSettledAt(k, outcome)
     \/ \E k \in 1..MaxPending, outcome \in HookOutcomes : loadSettledAt(k, outcome)
     \/ \E k \in 1..MaxPending, outcome \in HookOutcomes : refreshBuildSettledAt(k, outcome)
     \/ \E k \in 1..MaxPending, outcome \in HookOutcomes : refreshLoadSettledAt(k, outcome)
  /\ UNCHANGED <<tm2Vars, tm1Vars, got>>

\* A model whose calls overlap.
SpecOverlap == Init /\ [][NextOverlap]_vars

-----------------------------------------------------------------------------
(* Properties of SfdxFalconModel *)

\* The instance a step acts on: the one whose hook settles, else the one called.
Actor ==
  IF pending # <<>> THEN Head(pending).self
  ELSE IF pending' # <<>> THEN Head(pending').self
  ELSE last'.self

\* The error name build() and load() use for their guard and hook failures.
ErrorNameOf(op) == IF op = "build" THEN "BuildError" ELSE "LoadingError"

\* C1: build() or load() on an instance whose ready flag is true fails with
\* the already-ready error (BuildError / LoadingError) and invokes no hook.
C1_AlreadyReadyRejected ==
  [][\A self \in Instances, arg \in OptsArgs :
       /\ (state[self].ready /\ build(self, arg)) =>
            /\ last'.result = "threw" /\ last'.error.name = "BuildError"
            /\ last'.invoked = <<>> /\ pending' = <<>>
       /\ (state[self].ready /\ load(self, arg)) =>
            /\ last'.result = "threw" /\ last'.error.name = "LoadingError"
            /\ last'.invoked = <<>> /\ pending' = <<>>]_vars

\* C1 witness: a build() or load() was rejected on a ready instance.
C1_Witness ==
  /\ last.op \in {"build", "load"}
  /\ state[last.self].ready
  /\ last.result = "threw"
  /\ last.invoked = <<>>

\* C2: right after a build() or load() whose hook returned true, exactly one
\* of built/loaded is true (built after build, loaded after load), ready is
\* true, failed and stale are false.
C2_SuccessFlags ==
  (last.op \in {"build", "load"} /\ last.outcome = "true") =>
    LET s == state[last.self]
    IN /\ s.built = (last.op = "build")
       /\ s.loaded = (last.op = "load")
       /\ s.ready
       /\ ~s.failed
       /\ ~s.stale

\* C2 witness: a build() succeeded on an instance that had failed before.
C2_Witness ==
  /\ last.op = "build"
  /\ last.outcome = "true"
  /\ errors[last.self] # <<>>

\* C3: when the hook of build() or load() rejects, afterwards failed is true,
\* ready, built and loaded are false, and the recorded error list ends with
\* the wrapping BuildError/LoadingError whose cause is the hook's error.
C3_FailureFlagsAndError ==
  (last.op \in {"build", "load"} /\ last.outcome = "throw") =>
    LET s == state[last.self]
        e == errors[last.self]
    IN /\ s.failed /\ ~s.ready /\ ~s.built /\ ~s.loaded
       /\ e # <<>>
       /\ e[Len(e)] = [name |-> ErrorNameOf(last.op), cause |-> HookError.name]

\* C3 witness: the hook of a load() rejected.
C3_Witness ==
  /\ last.op = "load"
  /\ last.outcome = "throw"

\* C4: error trapping is per instance. When a hook fails, an instance with
\* trapErrors = true records the error and the call returns; one with
\* trapErrors = false records the error and then throws that same error; and
\* a step on one instance changes nothing of any other instance.
C4_TrapErrorsPerInstance ==
  /\ [](  (last.op \in {"build", "load"} /\ last.outcome \in {"false", "throw"}) =>
            LET e == errors[last.self]
            IN /\ e # <<>>
               /\ e[Len(e)].name = ErrorNameOf(last.op)
               /\ IF trapErrors[last.self]
                    THEN last.result = "returned"
                    ELSE last.result = "threw" /\ last.error = e[Len(e)] )
  /\ [][\A i \in Instances : i # Actor =>
          /\ trapErrors'[i] = trapErrors[i]
          /\ state'[i] = state[i]
          /\ errors'[i] = errors[i]
          /\ buildOpts'[i] = buildOpts[i]
          /\ loadOpts'[i] = loadOpts[i]]_vars

\* C4 witness: two instances with different settings, and the trapping one
\* has just had a hook fail without throwing.
C4_Witness ==
  /\ last.op \in {"build", "load"}
  /\ last.outcome = "throw"
  /\ trapErrors[last.self]
  /\ last.result = "returned"
  /\ \E i \in Instances : ~trapErrors[i]

\* C5: refresh() on an instance that is not ready fails with RefreshError,
\* invokes no hook and changes no status flag.
C5_RefreshNotReady ==
  [][\A self \in Instances :
       (state[self].ready # TRUE /\ refresh(self)) =>
          /\ last'.result = "threw" /\ last'.error.name = "RefreshError"
          /\ last'.invoked = <<>> /\ pending' = <<>>
          /\ state' = state]_vars

\* C5 witness: a refresh() was rejected on an instance that is not ready.
C5_Witness ==
  /\ last.op = "refresh"
  /\ last.error.name = "RefreshError"
  /\ ~state[last.self].ready

\* C6: for an instance made ready by load(opts), a refresh() whose `_load`
\* hook succeeds invokes `_load` with those options, completes without
\* error and leaves loaded and ready true, built and failed false.
C6_RefreshViaLoad ==
  (/\ last.op = "refresh"
   /\ last.outcome = "true"
   /\ readyBy[last.self].hook = "_load") =>
    LET s == state[last.self]
    IN /\ last.invoked = <<readyBy[last.self]>>
       /\ last.result = "returned"
       /\ s.loaded /\ s.ready /\ ~s.built /\ ~s.failed

\* C7: for an instance made ready by build(opts), refresh() invokes `_build`
\* exactly once with the options of that build call and never `_load`; when
\* the hook succeeds built and ready are true, loaded and failed false; when
\* it fails failed is true and ready false.
C7_RefreshViaBuild ==
  (/\ last.op = "refresh"
   /\ last.error.name # "RefreshError"
   /\ readyBy[last.self].hook = "_build") =>
    LET s == state[last.self]
    IN /\ last.invoked = <<readyBy[last.self]>>
       /\ last.outcome = "true" => (s.built /\ s.ready /\ ~s.loaded /\ ~s.failed)
       /\ last.outcome # "true" => (s.failed /\ ~s.ready)

\* C7 witness: a refresh() replayed non-empty build options while other load
\* options were stored.
C7_Witness ==
  /\ last.op = "refresh"
  /\ last.outcome = "true"
  /\ readyBy[last.self].hook = "_build"
  /\ readyBy[last.self].opts \in CallerOpts
  /\ loadOpts[last.self] # buildOpts[last.self]

\* C8 as stated: once failed is true, no later call makes ready true again.
C8_NeverReadyAgain ==
  [][\A i \in Instances : state[i].failed => ~state'[i].ready]_vars

\* C8 amended: with calls awaited one at a time, while failed is true ready
\* is false and refresh() is rejected with RefreshError without effect; ready
\* becomes true again only when the hook of a later build() or load() on that
\* instance returns true, and that step clears failed.
C8_RevivedOnlyByBuildOrLoad ==
  /\ [](\A i \in Instances : state[i].failed => ~state[i].ready)
  /\ [][\A i \in Instances :
          /\ (state[i].failed /\ refresh(i)) =>
               (last'.error.name = "RefreshError" /\ state' = state /\ pending' = <<>>)
          /\ (state[i].failed /\ state'[i].ready) =>
               /\ pending # <<>>
               /\ Head(pending).self = i
               /\ Head(pending).op \in {"build", "load"}
               /\ last'.outcome = "true"
               /\ ~state'[i].failed]_vars

\* C8 witness: an instance that recorded a failure is ready again after load().
C8_Witness ==
  /\ last.op = "load"
  /\ last.outcome = "true"
  /\ errors[last.self] # <<>>
  /\ state[last.self].ready

-----------------------------------------------------------------------------
(* Properties of Tm2Context *)

\* The Developer Names of the records of an extract.
DevNamesOf(records) == {records[k].DeveloperName : k \in 1..Len(records)}

\* Some mapping row names a Developer Name, its own or its parent's, that no
\* record of the extract carries.
SomeRowUnresolvable(mappings, records) ==
  \E i \in 1..Len(mappings) :
    \/ mappings[i].territory2DevName \notin DevNamesOf(records)
    \/ /\ mappings[i].territory2ParentDevName # Empty
       /\ mappings[i].territory2ParentDevName \notin DevNamesOf(records)

\* C9: updateRecordMaps() is all-or-nothing: if a mapping row's Developer
\* Name (or parent Developer Name) has no record in the re-parsed extract,
\* the call fails with DeveloperNameNotFound and every mapping row's
\* territory2Id and territory2ParentId are as before the call.
C9_AllOrNothing ==
  [][(/\ updateRecordMaps
      /\ territory2Csv.exists
      /\ Len(territory2Csv.rows) > 0
      /\ SomeRowUnresolvable(territoryDevNameMappings, territory2Csv.rows)) =>
       /\ tm2Last'.error = "DeveloperNameNotFound"
       /\ \A i \in 1..Len(territoryDevNameMappings) :
            /\ territoryDevNameMappings'[i].territory2Id =
                 territoryDevNameMappings[i].territory2Id
            /\ territoryDevNameMappings'[i].territory2ParentId =
                 territoryDevNameMappings[i].territory2ParentId]_vars

\* C10: after updateRecordMaps() has succeeded, the rows built by
\* buildUserT2AssociationRecords() carry, in Territory2Id, the Id of the
\* destination record named by the row's placeholder, and no built row's
\* Territory2Id still starts with T2ID_PENDING_.
C10_PlaceholdersResolved ==
  (/\ tm2Last = Returned("buildUserT2AssociationRecords")
   /\ updated) =>
    LET source == userTerritory2AssociationIntermediateCsv.rows
        built == userTerritory2AssociationRecords
    IN /\ Len(built) = Len(source)
       /\ \A k \in 1..Len(built) :
            /\ startsWith(source[k].Territory2Id, PendingPrefix) =>
                 \E j \in 1..Len(territory2Records) :
                   /\ territory2Records[j].DeveloperName = substring(source[k].Territory2Id, 13)
                   /\ built[k].Territory2Id = territory2Records[j].Id
            /\ ~startsWith(built[k].Territory2Id, PendingPrefix)

\* C11: on a prepared context whose updateRecordMaps() has not yet
\* succeeded, buildUserT2AssociationRecords() fails with ObjectNotUpdated
\* whatever the intermediate association file holds, and stores no
\* association records.
C11_NotUpdatedRejected ==
  [][\A receiver \in CallbackReceivers :
       (~updated /\ buildUserT2AssociationRecords(receiver)) =>
          /\ tm2Last'.error = "ObjectNotUpdated"
          /\ userTerritory2AssociationRecords' = <<>>]_vars

\* C12: association-record building is one-shot: once a call of
\* buildUserT2AssociationRecords() or buildObjectT2AssociationRecords() has
\* returned, every further call of the same method fails with
\* RecordBuildError and leaves the in-memory association records unchanged.
C12_OneShot ==
  [][/\ \A receiver \in CallbackReceivers :
          (/\ "buildUserT2AssociationRecords" \in tm2Completed
           /\ buildUserT2AssociationRecords(receiver)) =>
             /\ tm2Last'.error = "RecordBuildError"
             /\ userTerritory2AssociationRecords' = userTerritory2AssociationRecords
     /\ (/\ "buildObjectT2AssociationRecords" \in tm2Completed
         /\ buildObjectT2AssociationRecords) =>
           /\ tm2Last'.error = "RecordBuildError"
           /\ objectTerritory2AssociationRecords' = objectTerritory2AssociationRecords]_vars

\* The mapping row's Id is the Id of a record of the extract that carries
\* the given Developer Name.
IsIdOf(id, devName, records) ==
  \E j \in 1..Len(records) : records[j].DeveloperName = devName /\ records[j].Id = id

\* C13: after updateRecordMaps() has succeeded, every mapping row's
\* territory2Id is the Id of the destination record whose DeveloperName is
\* the row's territory2DevName, and every row with a parent Developer Name
\* has in territory2ParentId the Id of the destination record of that name.
C13_RowsResolved ==
  tm2Last = Returned("updateRecordMaps") =>
    \A i \in 1..Len(territoryDevNameMappings) :
      LET row == territoryDevNameMappings[i]
      IN /\ IsIdOf(row.territory2Id, row.territory2DevName, territory2Records)
         /\ row.territory2ParentDevName # Empty =>
              IsIdOf(row.territory2ParentId, row.territory2ParentDevName, territory2Records)

\* C14: updateRecordMaps() against an extract that parses to zero records
\* fails with CsvFileEmpty, modifies no mapping row and leaves the updated
\* flag as it was.
C14_EmptyExtractRejected ==
  [][(/\ updateRecordMaps
      /\ territory2Csv.exists
      /\ Len(territory2Csv.rows) = 0) =>
       /\ tm2Last' = Threw("updateRecordMaps", "CsvFileEmpty")
       /\ territoryDevNameMappings' = territoryDevNameMappings
       /\ updated' = updated]_vars

\* C14 witness: an update failed on an empty extract, on a context that
\* holds mapping rows and was not updated before.
C14_Witness ==
  /\ tm2Last = Threw("updateRecordMaps", "CsvFileEmpty")
  /\ Len(territoryDevNameMappings) > 0
  /\ territory2Csv = File(<<>>)
  /\ ~updated

\* The records of an extract as a set.
RecordsOf(records) == {records[k] : k \in 1..Len(records)}

\* The entries of a map as a set.
EntriesOf(map) == {map[k] : k \in DOMAIN map}

\* C15: after updateRecordMaps() has succeeded, the by-DeveloperName and
\* by-Id indices hold exactly the records of the extract the call parsed:
\* no entry from an extract read earlier and absent from this one remains.
C15_IndicesRebuilt ==
  tm2Last = Returned("updateRecordMaps") =>
    /\ EntriesOf(territory2RecordsByDevName) = RecordsOf(territory2Records)
    /\ EntriesOf(territory2RecordsById) = RecordsOf(territory2Records)
    /\ \A r \in RecordsOf(territory2Records) :
         /\ territory2RecordsByDevName[r.DeveloperName] = r
         /\ territory2RecordsById[r.Id] = r

\* C16: the updated flag is true exactly when an earlier updateRecordMaps()
\* has returned: a context as prepare() returns it is prepared and not
\* updated, a failed update does not set the flag, and the flag never
\* returns to false.
C16_UpdatedIffUpdateSucceeded ==
  /\ [](updated <=> "updateRecordMaps" \in tm2Completed)
  /\ [](tm2Last = Returned("prepare") => (prepared /\ ~updated))
  /\ [][updated => updated']_vars

\* C16 witness: an update failed on a context that was updated before, and
\* the flag is still true.
C16_Witness ==
  /\ updated
  /\ tm2Last.op = "updateRecordMaps"
  /\ tm2Last.result = "threw"

-----------------------------------------------------------------------------
(* Properties of Tm1Context *)

\* The rule Ids of the records of an extract.
RuleIdsOf(records) == {records[i].Id : i \in 1..Len(records)}

SlugOf(records, i) == createDeveloperName(records[i].Name)

\* The names assigned to the rules ahead of position i.
AssignedBefore(devNames, i) == {devNames[j] : j \in 1..(i - 1)}

\* The slug cut to (80 - length of the suffix) characters, then the suffix n.
Suffixed(slug, n) == substringTo(slug, 80 - Len(toString(n))) \o toString(n)

\* A rule whose slug is already assigned is named by the cut slug and the
\* smallest suffix n >= 2 whose candidate is not assigned yet.
SmallestFreeSuffix(devNames, slug, i) ==
  slug \in AssignedBefore(devNames, i) =>
    \E n \in 2..(2 * i + 2) :
      /\ devNames[i] = Suffixed(slug, n)
      /\ Suffixed(slug, n) \notin AssignedBefore(devNames, i)
      /\ \A k \in 2..(n - 1) : Suffixed(slug, k) \in AssignedBefore(devNames, i)

\* Two rules named "East Region" and "East-Region", alone in a context, are
\* named East_Region and East_Region2.
EastRegionExample(records, devNames) ==
  (Len(records) = 2 /\ records[1].Name = EastRegion /\ records[2].Name = EastDashRegion) =>
    /\ devNames[1] # devNames[2]
    /\ devNames[2][Len(devNames[2])] = "2"

\* C18 as stated: the first rule with a given slug keeps the unsuffixed
\* slug; a later rule whose slug is already assigned gets the cut slug and
\* the smallest free suffix n >= 2.
C18_FirstOfSlugKeepsSlug ==
  \A c \in Contexts :
    tm1Prepared[c] =>
      LET records == ataRuleRecords[c]
          devNames == ataRuleDevNamesByRuleId[c]
      IN /\ \A i \in 1..Len(records) :
              /\ (\A j \in 1..(i - 1) : SlugOf(records, j) # SlugOf(records, i)) =>
                   devNames[i] = SlugOf(records, i)
              /\ SmallestFreeSuffix(devNames, SlugOf(records, i), i)
         /\ EastRegionExample(records, devNames)

\* C18 amended: a rule whose slug is not yet assigned to any earlier rule
\* keeps the unsuffixed slug; a rule whose slug is already assigned (as the
\* slug or as the suffixed name of an earlier rule) gets the slug cut to
\* (80 - length of the suffix) characters and the smallest suffix n >= 2
\* whose candidate is not assigned yet.
C18_SlugKeptUnlessAssigned ==
  \A c \in Contexts :
    tm1Prepared[c] =>
      LET records == ataRuleRecords[c]
          devNames == ataRuleDevNamesByRuleId[c]
      IN /\ \A i \in 1..Len(records) :
              /\ SlugOf(records, i) \notin AssignedBefore(devNames, i) =>
                   devNames[i] = SlugOf(records, i)
              /\ SmallestFreeSuffix(devNames, SlugOf(records, i), i)
         /\ EastRegionExample(records, devNames)

\* C18 witness: the tenth rule of one 80-character name carries the slug
\* cut to 78 characters and the suffix 10.
C18_Witness ==
  \E c \in Contexts :
    /\ tm1Prepared[c]
    /\ Len(ataRuleRecords[c]) >= 10
    /\ ataRuleDevNamesByRuleId[c][10] = SubSeq(LongName, 1, 78) \o <<"1", "0">>

C20_StatusPerKind ==
  /\ (parseCsvFiles.error = NoTm2Error /\ parseXmlFiles.error = NoTm2Error
        /\ tm1Last # NoTm2Call) => tm1Last = Returned("validate")
  /\ tm1Last = Returned("validate") =>
       LET status == tm1ContextValidation.status
           counts == tm1ContextValidation.expectedRecordCounts
       IN /\ counts \in AnalysisReports
          /\ status.territoryExtractionIsValid =
               (Len(territoryCsv.rows) = counts.territoryRecordCount)
          /\ status.ataRuleExtractionIsValid =
               (Len(ataRuleCsv.rows) = counts.ataRuleRecordCount)
          /\ status.ataRuleItemExtractionIsValid =
               (Len(ataRuleItemCsv.rows) = counts.ataRuleItemRecordCount)
          /\ status.userTerritoryExtractionIsValid =
               (Len(userTerritoryCsv.rows) = counts.userTerritoryRecordCount)
          /\ status.accountShareExtractionIsValid =
               (Len(accountShareCsv.rows) = counts.accountShareRecordCount)

\* C20 witness: a validation was returned in which only the Territory count
\* differs from the expected one, and only the Territory flag is false.
C20_Witness ==
  /\ tm1Last = Returned("validate")
  /\ Len(territoryCsv.rows) # tm1ContextValidation.expectedRecordCounts.territoryRecordCount
  /\ tm1ContextValidation.status =
       [territoryExtractionIsValid |-> FALSE, ataRuleExtractionIsValid |-> TRUE,
        ataRuleItemExtractionIsValid |-> TRUE, userTerritoryExtractionIsValid |-> TRUE,
        accountShareExtractionIsValid |-> TRUE]

-----------------------------------------------------------------------------
(* Properties of the accessors *)

\* C23: a read of an accessor of records, maps, mappings or sharing rules
\* on a destination context that is not prepared throws ObjectNotPrepared,
\* on a source context that is not prepared ContextNotPrepared, and hands
\* out nothing; a read that returns is a read of a prepared context.
C23_AccessorsGuarded ==
  /\ [][/\ \A accessor \in Tm2Accessors :
             (~prepared /\ getTm2(accessor)) =>
               got' = GotError("Tm2Context", accessor, "ObjectNotPrepared")
        /\ \A self \in Contexts, accessor \in Tm1Accessors :
             (~tm1Prepared[self] /\ getTm1(self, accessor)) =>
               got' = GotError(self, accessor, "ContextNotPrepared")]_vars
  /\ []((got.accessor \in Tm2Accessors /\ got.result = "returned") => prepared)
  /\ [](\A self \in Contexts :
          (got.of = self /\ got.accessor \in Tm1Accessors /\ got.result = "returned") =>
            tm1Prepared[self])

\* C23 witness: a read on a destination context that is not prepared has
\* thrown, while a source context is prepared.
C23_Witness ==
  /\ ~prepared
  /\ got = GotError("Tm2Context", "territoryDevNameMappings", "ObjectNotPrepared")
  /\ \E self \in Contexts : tm1Prepared[self]

-----------------------------------------------------------------------------
(* Properties of Tm1Context.validate *)

\* The number of rules of one kind the three files parse to.
SharingRuleCount(parsed, kind) ==
  Len(parsed.accountSharingRules[kind]) + Len(parsed.leadSharingRules[kind])
    + Len(parsed.opportunitySharingRules[kind])

\* C21: the actual counts of a validation that validate() returns hold, for
\* each kind of sharing rule, the number of rules of that kind parsed from
\* the sharing-rules files of the validated extract.
C21_SharingRuleCounts ==
  tm1Last = Returned("validate") =>
    LET actual == tm1ContextValidation.actualRecordCounts
        parsed == parseXmlFiles.value
    IN /\ actual.sharingCriteriaRuleCount = SharingRuleCount(parsed, "sharingCriteriaRules")
       /\ actual.sharingOwnerRuleCount = SharingRuleCount(parsed, "sharingOwnerRules")
       /\ actual.sharingTerritoryRuleCount = SharingRuleCount(parsed, "sharingTerritoryRules")

\* A step of validate(): the call completes and no file is rewritten.
ValidateStep == tm1Last'.op = "validate" /\ UNCHANGED <<tm1CsvFiles, tm1XmlFiles>>

\* C22: validate() changes no member of any source context, prepared or
\* not, and what it returns is determined by the files and the report
\* alone: the records are those of the extracts, the actual counts their
\* numbers, each flag the comparison of that number with the report's.
C22_ValidateLeavesContexts ==
  [][ValidateStep =>
       /\ UNCHANGED tm1Members
       /\ tm1Last'.result = "returned" =>
            LET validation == tm1ContextValidation'
                counts == validation.expectedRecordCounts
            IN /\ validation.records =
                    [accountShareRecords |-> accountShareCsv.rows,
                     ataRuleRecords |-> ataRuleCsv.rows,
                     ataRuleItemRecords |-> ataRuleItemCsv.rows,
                     territoryRecords |-> territoryCsv.rows,
                     userTerritoryRecords |-> userTerritoryCsv.rows]
               /\ validation.actualRecordCounts.ataRuleRecordCount = Len(ataRuleCsv.rows)
               /\ validation.status.ataRuleExtractionIsValid =
                    (counts.ataRuleRecordCount = Len(ataRuleCsv.rows))]_vars

\* C22 witness: a validation was returned whose rule records are those of
\* the extract, while a prepared context holds other rule records.
C22_Witness ==
  /\ tm1Last = Returned("validate")
  /\ tm1ContextValidation.records.ataRuleRecords = ataRuleCsv.rows
  /\ \E c \in Contexts : tm1Prepared[c] /\ ataRuleRecords[c] # ataRuleCsv.rows

-----------------------------------------------------------------------------
(* Properties of Tm1Context.parseSharingRulesFromXml *)

\* The element read as the list of its instances.
AsList(element) == IF element.kind = "object" THEN Several(element.items) ELSE element

\* The rules of an element as a list, the criteria items of each rule as a
\* list.
RulesAsLists(element) ==
  [kind |-> AsList(element).kind,
   items |-> [i \in 1..Len(element.items) |->
                [element.items[i] EXCEPT !.criteriaItems = AsList(@)]]]

\* The document with every repeatable element as a list.
JsonAsLists(json) ==
  [k \in DOMAIN json |->
     SharingRulesJson(RulesAsLists(json[k].sharingCriteriaRules),
                      RulesAsLists(json[k].sharingOwnerRules),
                      RulesAsLists(json[k].sharingTerritoryRules))]

\* The rules of Account.sharingRules every prepared context holds.
AccountRulesAre(parsed) ==
  \A self \in Contexts : tm1Prepared[self] => accountSharingRules[self] = parsed

\* C24: a document whose repeatable elements (the rules of a kind, the
\* criteria items of a rule) occur once is parsed as the document with
\* those elements as lists of one is: when the latter parses, prepare()
\* returns and the context holds the same rules.
C24_SingleAsList ==
  LET listed == parseSharingRulesFromXml(JsonAsLists(accountSharingRulesXml.json))
  IN (accountSharingRulesXml.exists /\ tm1Last.op = "prepare"
        /\ listed.error = NoTm2Error) =>
       (tm1Last = Returned("prepare") /\ AccountRulesAre(listed.value))

\* The fullNames of the rules of a list.
FullNames(rules) == [i \in 1..Len(rules) |-> rules[i].fullName]

\* The fullNames of the territory-related rules of an element, in source
\* order.
RetainedNames(element) ==
  LET retained == SelectSeq(element.items, isTerritoryRelated)
  IN [i \in 1..Len(retained) |-> textOf(retained[i].fullName)]

\* C25: the rules of each kind that prepare() keeps are exactly the rules
\* of the document whose sharedTo or sharedFrom is a territory or a
\* territoryAndSubordinates group, in source order.
C25_TerritoryRelatedRetained ==
  LET sharingRules == accountSharingRulesXml.json["SharingRules"]
  IN (accountSharingRulesXml.exists /\ tm1Last.op = "prepare") =>
       /\ tm1Last = Returned("prepare")
       /\ \A self \in Contexts :
            tm1Prepared[self] =>
              /\ FullNames(accountSharingRules[self].sharingCriteriaRules) =
                   RetainedNames(sharingRules.sharingCriteriaRules)
              /\ FullNames(accountSharingRules[self].sharingOwnerRules) =
                   RetainedNames(sharingRules.sharingOwnerRules)
              /\ FullNames(accountSharingRules[self].sharingTerritoryRules) =
                   RetainedNames(sharingRules.sharingTerritoryRules)

\* Some territory-related rule of the list has no criteriaItems element.
SomeRuleWithoutCriteriaItems(sharingCriteriaRules) ==
  \E i \in 1..Len(sharingCriteriaRules) :
    /\ isTerritoryRelated(sharingCriteriaRules[i])
    /\ sharingCriteriaRules[i].criteriaItems.kind = "undefined"

\* C26: a list of criteria-based rules with a territory-related rule that
\* has no criteriaItems element parses, and every such rule is kept with an
\* empty list of criteria items.
C26_CriteriaItemsOptional ==
  LET criteria == accountSharingRulesXml.json["SharingRules"].sharingCriteriaRules
  IN (accountSharingRulesXml.exists /\ tm1Last.op = "prepare" /\ isArray(criteria)
        /\ SomeRuleWithoutCriteriaItems(criteria.items)) =>
       /\ tm1Last = Returned("prepare")
       /\ \A self \in Contexts :
            tm1Prepared[self] =>
              \A i \in 1..Len(criteria.items) :
                (/\ isTerritoryRelated(criteria.items[i])
                 /\ criteria.items[i].criteriaItems.kind = "undefined") =>
                  \E j \in 1..Len(accountSharingRules[self].sharingCriteriaRules) :
                    /\ accountSharingRules[self].sharingCriteriaRules[j].fullName =
                         textOf(criteria.items[i].fullName)
                    /\ accountSharingRules[self].sharingCriteriaRules[j].criteriaItems = <<>>

-----------------------------------------------------------------------------
(* Properties of Tm1Context.prepare *)

\* The five extracts of the extraction.
TabularExtracts == {accountShareCsv, ataRuleCsv, ataRuleItemCsv, territoryCsv, userTerritoryCsv}

\* The rules parsed from a sharing rules file that may be absent.
RulesOfOptional(file, parsed) == ~file.exists => parsed = NoSharingRules

\* C27: prepare() throws and prepares no context when one of the five
\* extracts cannot be parsed; when all five parse it returns, whichever of
\* the sharing rules files are absent, the rules of an absent file being
\* three empty lists; and a context it has returned is prepared.
C27_PrepareOutcome ==
  tm1Last.op = "prepare" =>
    /\ (\E file \in TabularExtracts : ~file.exists) =>
         (tm1Last.result = "threw" /\ \A self \in Contexts : ~tm1Prepared[self])
    /\ (\A file \in TabularExtracts : file.exists) =>
         (tm1Last = Returned("prepare") /\ \E self \in Contexts : tm1Prepared[self])
    /\ \A self \in Contexts :
         tm1Prepared[self] =>
           /\ RulesOfOptional(accountSharingRulesXml, accountSharingRules[self])
           /\ RulesOfOptional(leadSharingRulesXml, leadSharingRules[self])
           /\ RulesOfOptional(opportunitySharingRulesXml, opportunitySharingRules[self])

\* C27 witness: prepare() has returned a context although Account.sharingRules
\* and Opportunity.sharingRules are absent; the context holds the rule of
\* Lead.sharingRules and no others.
C27_Witness ==
  /\ tm1Last = Returned("prepare")
  /\ ~accountSharingRulesXml.exists
  /\ ~opportunitySharingRulesXml.exists
  /\ \E self \in Contexts :
       /\ tm1Prepared[self]
       /\ accountSharingRules[self] = NoSharingRules
       /\ Len(leadSharingRules[self].sharingOwnerRules) = 1

-----------------------------------------------------------------------------
(* Properties of Tm2Context.prepare *)

\* C28: prepare() throws and prepares nothing when the DeveloperName
\* mapping table cannot be parsed; otherwise it returns a prepared context,
\* which holds no Territory2 records and empty by-DeveloperName and by-Id
\* maps when the Territory2 extract cannot be read, and which holds the
\* records of the extract, each found under its DeveloperName and under
\* its Id and nothing else in the maps, when it can.
C28_PrepareOutcome ==
  [][prepare =>
       IF ~tm1ToTm2DevnameMapCsv.exists
         THEN tm2Last'.result = "threw" /\ ~prepared'
         ELSE /\ tm2Last' = Returned("prepare")
              /\ prepared'
              /\ territoryDevNameMappings' = tm1ToTm2DevnameMapCsv.rows
              /\ IF ~territory2Csv.exists
                   THEN /\ territory2Records' = <<>>
                        /\ territory2RecordsByDevName' = EmptyMap
                        /\ territory2RecordsById' = EmptyMap
                   ELSE /\ territory2Records' = territory2Csv.rows
                        /\ \A r \in RecordsOf(territory2Csv.rows) :
                             /\ r.DeveloperName \in DOMAIN territory2RecordsByDevName'
                             /\ territory2RecordsByDevName'[r.DeveloperName] = r
                             /\ r.Id \in DOMAIN territory2RecordsById'
                             /\ territory2RecordsById'[r.Id] = r
                        /\ EntriesOf(territory2RecordsByDevName') = RecordsOf(territory2Csv.rows)
                        /\ EntriesOf(territory2RecordsById') = RecordsOf(territory2Csv.rows)]_vars

\* C28 witness: prepare() has returned a context over an extraction
\* without Territory2 extract, and the context holds the mappings and no
\* records.
C28_Witness ==
  /\ tm2Last = Returned("prepare")
  /\ prepared
  /\ ~territory2Csv.exists
  /\ Len(territoryDevNameMappings) > 0
  /\ territory2Records = <<>>
  /\ territory2RecordsById = EmptyMap

\* A prepared context over a Territory2 extract of two records holds both
\* under their Ids.
C28_IndexedWitness ==
  /\ tm2Last = Returned("prepare")
  /\ Len(territory2Csv.rows) = 2
  /\ territory2Records = territory2Csv.rows
  /\ Cardinality(DOMAIN territory2RecordsById) = 2

-----------------------------------------------------------------------------
(* Properties of Tm1Context.transformCsvFiles *)

\* The rules of the extract with the TerritoryId, in extract order.
RulesOfTerritory(rules, territoryId) ==
  LET ofTerritory(rule) == rule.TerritoryId = territoryId
  IN SelectSeq(rules, ofTerritory)

\* The items of the extract with the RuleId, in extract order.
ItemsOfRule(items, ruleId) ==
  LET ofRule(item) == item.RuleId = ruleId
  IN SelectSeq(items, ofRule)

\* The groups of the map a rule is a member of.
GroupsOf(map, rule) == {t \in DOMAIN map : \E j \in 1..Len(map[t]) : map[t][j] = rule}

\* C29: in a prepared context the by-Id map holds every rule of the
\* extract under its Id and nothing else; the by-TerritoryId map holds,
\* under each TerritoryId of the extract, the rules of that territory in
\* extract order, so every rule is in one group only; and the
\* items-by-RuleId map holds, under the Id of every rule, the items of the
\* extract with that RuleId in extract order, an empty list when there are
\* none.
C29_Indices ==
  \A self \in Contexts :
    tm1Prepared[self] =>
      LET rules == ataRuleCsv.rows
          items == ataRuleItemCsv.rows
      IN /\ DOMAIN ataRuleRecordsById[self] = {rules[i].Id : i \in 1..Len(rules)}
         /\ \A i \in 1..Len(rules) : ataRuleRecordsById[self][rules[i].Id] = rules[i]
         /\ DOMAIN ataRuleRecordsByTerritoryId[self] =
              {rules[i].TerritoryId : i \in 1..Len(rules)}
         /\ \A t \in DOMAIN ataRuleRecordsByTerritoryId[self] :
              ataRuleRecordsByTerritoryId[self][t] = RulesOfTerritory(rules, t)
         /\ \A i \in 1..Len(rules) :
              GroupsOf(ataRuleRecordsByTerritoryId[self], rules[i]) = {rules[i].TerritoryId}
         /\ DOMAIN ataRuleItemRecordsByRuleId[self] = {rules[i].Id : i \in 1..Len(rules)}
         /\ \A i \in 1..Len(rules) :
              ataRuleItemRecordsByRuleId[self][rules[i].Id] = ItemsOfRule(items, rules[i].Id)

\* C29 witness: a prepared context over three rules, the first and the
\* third of one territory, the second of another, the first rule with two
\* items and the second with none.
C29_Witness ==
  \E self \in Contexts :
    /\ tm1Prepared[self]
    /\ Len(ataRuleRecords[self]) = 3
    /\ DOMAIN ataRuleRecordsByTerritoryId[self] = {TerrA, TerrB}
    /\ Len(ataRuleRecordsByTerritoryId[self][TerrA]) = 2
    /\ ataRuleRecordsByTerritoryId[self][TerrB] = <<ataRuleRecords[self][2]>>
    /\ Len(ataRuleItemRecordsByRuleId[self][1]) = 2
    /\ ataRuleItemRecordsByRuleId[self][2] = <<>>

-----------------------------------------------------------------------------
(* Properties of what SfdxFalconModel hands out *)

\* C30: the flags built, loaded, ready, failed and stale of an instance
\* change in the steps of build(), load() and refresh() only, whatever the
\* caller does with what the calls and the flag getters have returned.
C30_FlagsReadOnly ==
  [][state' # state => modelNext(Instances, OptsArgs)]_vars

-----------------------------------------------------------------------------
(* Frame and error properties of SfdxFalconModel *)

\* C31: a build() or load() on an instance that is ready, or with an
\* options argument that is not a non-empty object, throws before the hook
\* is invoked and leaves the five flags, the stored build and load options
\* and the recorded errors of every instance as they were.
C31_RejectedCallsMutateNothing ==
  [][\A self \in Instances, arg \in OptsArgs :
       ((build(self, arg) \/ load(self, arg)) /\ (state[self].ready \/ arg = "invalid")) =>
         /\ last'.result = "threw"
         /\ last'.invoked = <<>>
         /\ pending' = pending
         /\ UNCHANGED <<state, buildOpts, loadOpts, errors>>]_vars

\* C31 witness: a build() with invalid options has been rejected on an
\* instance that holds options and an error of an earlier, failed build().
C31_Witness ==
  /\ last.op = "build"
  /\ last.error.name = "TypeError"
  /\ buildOpts["m1"] = "o1"
  /\ Len(errors["m1"]) = 1
  /\ state["m1"].failed

\* C32: when the hook of build() or load() resolves to false, as when it
\* rejects, failed becomes true and ready, built, loaded and stale false,
\* one error named BuildError (build) or LoadingError (load) is appended
\* to the recorded errors, and the call throws that error unless
\* trapErrors is true, in which case it returns.
C32_FalseIsFailure ==
  [][\A outcome \in {"false", "throw"} :
       (buildSettled(outcome) \/ loadSettled(outcome)) =>
         LET self == Head(pending).self
             e == errors'[self]
         IN /\ state'[self] = [built |-> FALSE, loaded |-> FALSE, failed |-> TRUE,
                               ready |-> FALSE, stale |-> FALSE]
            /\ Len(e) = Len(errors[self]) + 1
            /\ SubSeq(e, 1, Len(errors[self])) = errors[self]
            /\ e[Len(e)].name = ErrorNameOf(Head(pending).op)
            /\ last'.outcome = outcome
            /\ IF trapErrors[self] = TRUE
                 THEN last'.result = "returned"
                 ELSE last'.result = "threw" /\ last'.error = e[Len(e)]]_vars

\* C32 witness: the hook of a load() has resolved to false on an instance
\* that traps errors, and the call has returned with the error recorded.
C32_Witness ==
  /\ last.op = "load"
  /\ last.outcome = "false"
  /\ last.result = "returned"
  /\ trapErrors[last.self]
  /\ state[last.self].failed
  /\ ~state[last.self].ready
  /\ Len(errors[last.self]) = 1
  /\ errors[last.self][1].name = "LoadingError"

\* C33: in every state, also while calls overlap, no instance is both
\* built and loaded, ready is true exactly when one of built and loaded
\* is, a ready instance is not failed, and stale is false.
C33_FlagsConsistent ==
  \A i \in Instances :
    LET s == state[i]
    IN /\ ~(s.built /\ s.loaded)
       /\ s.ready = (s.built # s.loaded)
       /\ s.ready => ~s.failed
       /\ ~s.stale

\* C33 witness: the instance has been made ready by a load() while a
\* build() entered before that is still awaiting its hook.
C33_Witness ==
  /\ state["m1"].loaded
  /\ state["m1"].ready
  /\ \E k \in 1..Len(pending) : pending[k].op = "build"

\* A build() entered before a load() settled has succeeded after it: the
\* instance is built and no longer loaded.
C33_BuiltAfterLoaded ==
  /\ last.op = "build"
  /\ last.outcome = "true"
  /\ readyBy["m1"].hook = "_build"
  /\ state["m1"].built
  /\ \E k \in 1..Len(pending) : pending[k].op = "refresh" /\ pending[k].invoked[1].hook = "_load"

\* The hook a call was awaiting has resolved to false or rejected in this
\* step.
HookFailedFor(i) ==
  /\ Len(pending') < Len(pending)
  /\ last'.self = i
  /\ last'.outcome \in {"false", "throw"}

\* C34: the recorded errors of an instance only grow, by one error in the
\* step in which a hook invoked by build(), load() or refresh() on it has
\* failed, and not at all in any other step.
C34_ErrorsAppendOnly ==
  [][\A i \in Instances :
       IF HookFailedFor(i)
         THEN /\ Len(errors'[i]) = Len(errors[i]) + 1
              /\ SubSeq(errors'[i], 1, Len(errors[i])) = errors[i]
         ELSE errors'[i] = errors[i]]_vars

-----------------------------------------------------------------------------
(* Properties of the Tm2Context row transform *)

\* The callback throws on some row of the intermediate file when run with
\* the receiver.
SomeRowFails(receiver) ==
  \E k \in 1..Len(userTerritory2AssociationIntermediateCsv.rows) :
    onRowData(receiver, updated, territory2RecordsByDevName,
              userTerritory2AssociationIntermediateCsv.rows[k]).error # NoTm2Error

\* C35: a buildUserT2AssociationRecords() on a context without
\* UserTerritory2Association records whose callback throws on some row
\* throws that error and leaves the context without records, so a context
\* whose build has failed holds none, and a call on a context without
\* records is never rejected as already built.
C35_FailedBuildLeavesNothing ==
  /\ [][\A receiver \in CallbackReceivers :
          (/\ buildUserT2AssociationRecords(receiver)
           /\ Len(userTerritory2AssociationRecords) = 0) =>
             /\ tm2Last'.error # "RecordBuildError"
             /\ SomeRowFails(receiver) =>
                  /\ tm2Last'.result = "threw"
                  /\ userTerritory2AssociationRecords' = <<>>]_vars
  /\ []((/\ tm2Last.op = "buildUserT2AssociationRecords"
         /\ tm2Last.result = "threw"
         /\ tm2Last.error # "RecordBuildError") =>
          userTerritory2AssociationRecords = <<>>)

\* C35 witness: on an updated context the build has failed with
\* DeveloperNameNotFound on the second row of the intermediate file, after
\* a first row that resolves, and the context holds no records.
C35_Witness ==
  /\ tm2Last = Threw("buildUserT2AssociationRecords", "DeveloperNameNotFound")
  /\ updated
  /\ Len(userTerritory2AssociationIntermediateCsv.rows) = 2
  /\ transformPendingT2Id(updated, territory2RecordsByDevName,
                          userTerritory2AssociationIntermediateCsv.rows[1]).error = NoTm2Error
  /\ userTerritory2AssociationRecords = <<>>

\* The row's Territory2Id is a string that is not a placeholder.
NotAPlaceholder(row) ==
  row.Territory2Id # Undefined /\ ~startsWith(row.Territory2Id, PendingPrefix)

C36_MixedWitness ==
  /\ tm2Last = Returned("buildUserT2AssociationRecords")
  /\ updated
  /\ Len(userTerritory2AssociationRecords) = 2
  /\ userTerritory2AssociationRecords[1] = AssociationRow("U1", Id1)
  /\ userTerritory2AssociationRecords[2] # userTerritory2AssociationIntermediateCsv.rows[2]

\* A row without Territory2Id has been rejected with a TypeError on an
\* updated context.
C36_RejectedWitness ==
  /\ tm2Last = Threw("buildUserT2AssociationRecords", "TypeError")
  /\ updated
  /\ userTerritory2AssociationIntermediateCsv = File(<<AssociationRow("U1", Undefined)>>)

\* The keys of the by-Id index that the step has set or set anew.
IndexedByStep ==
  { id \in DOMAIN territoryDevNameMapByT2Id' :
      \/ id \notin DOMAIN territoryDevNameMapByT2Id
      \/ territoryDevNameMapByT2Id'[id] # territoryDevNameMapByT2Id[id] }

\* C37: every key of the mapping-by-Territory2-Id index starts with '0MI'
\* and leads to a row of the mapping list, which carried that Id when the
\* key was set; the empty Id of a row not yet resolved is never a key.
C37_IndexKeysAreRecordIds ==
  /\ [](\A id \in DOMAIN territoryDevNameMapByT2Id :
          /\ startsWith(id, territory2RecordIdPrefix)
          /\ territoryDevNameMapByT2Id[id] \in 1..Len(territoryDevNameMappings))
  /\ [](Empty \notin DOMAIN territoryDevNameMapByT2Id)
  /\ [][\A id \in IndexedByStep :
          territoryDevNameMappings'[territoryDevNameMapByT2Id'[id]].territory2Id = id]_vars

\* C37 witness: the maps were updated and the index leads from two record
\* Ids to the two mapping rows that carry them.
C37_Witness ==
  /\ updated
  /\ DOMAIN territoryDevNameMapByT2Id = {Id1, Id2}
  /\ \A id \in {Id1, Id2} :
       territoryDevNameMappings[territoryDevNameMapByT2Id[id]].territory2Id = id

\* A context was prepared from a mapping table whose Ids are still empty and
\* its index is empty.
C37_UnresolvedWitness ==
  /\ prepared
  /\ ~updated
  /\ Len(territoryDevNameMappings) > 0
  /\ \A i \in 1..Len(territoryDevNameMappings) :
       territoryDevNameMappings[i].territory2Id = Empty
  /\ DOMAIN territoryDevNameMapByT2Id = {}

\* The index holds a key whose row has since been given another Id.
C37_StaleKeyWitness ==
  \E id \in DOMAIN territoryDevNameMapByT2Id :
    territoryDevNameMappings[territoryDevNameMapByT2Id[id]].territory2Id # id

-----------------------------------------------------------------------------
(* Properties of the naming loop *)

\* C38: whatever rules the AccountTerritoryAssignmentRule extract holds,
\* the naming loop of every rule is left, so that transformCsvFiles comes
\* to its end, and in a prepared context every rule has been assigned a
\* Developer Name.
C38_NamingLoopEnds ==
  /\ ataRuleCsv.exists =>
       \A self \in Contexts :
         namingEnds(DevNamesAtConstruction(self), ataRuleCsv.rows, 1)
  /\ \A self \in Contexts :
       tm1Prepared[self] =>
         \A i \in 1..Len(ataRuleRecords[self]) :
           /\ ataRuleRecords[self][i].Id \in DOMAIN ataRuleDevNamesByRuleId[self]
           /\ Len(ataRuleDevNamesByRuleId[self][ataRuleRecords[self][i].Id]) > 0

\* C38 witness: a context was prepared from twelve or more rules of one name
\* of 80 characters; the loop of the twelfth, which finds the names for the
\* counters 2 to 19 taken, was left with the counter 20.
C38_Witness ==
  \E self \in Contexts :
    /\ tm1Prepared[self]
    /\ Len(ataRuleRecords[self]) >= 12
    /\ \A i \in 1..Len(ataRuleRecords[self]) : ataRuleRecords[self][i].Name = DigitName
    /\ ataRuleDevNamesByRuleId[self][12] =
         substringTo(DigitName, devNameMaxLength - 2) \o <<"2", "0">>

====
